---- MODULE Spec2Model ----
(***************************************************************************)
(* Verification model of the marketplace backend (felix-kado/vk-test-task): *)
(* the credential policy, the token issuer/verifier, the auth service, the  *)
(* ad query validator and the ad service, over an in-memory rendering of    *)
(* the PostgreSQL user and ad stores.                                       *)
(*                                                                          *)
(* Strings are sequences of characters.  A character is named by a TLA+     *)
(* string: an ASCII character by itself, any other by its code point        *)
(* ("U+00E9").  Go measures len(s) in bytes, so every character carries its *)
(* UTF-8 width.                                                             *)
(***************************************************************************)
EXTENDS Integers, Sequences, FiniteSets, TLC

VARIABLES
    users,      \* rows of the users table, in insertion order
    nextUserID, \* next value of the users.id sequence
    ads,        \* rows of the ads table, in insertion order
    nextAdID,   \* next value of the ads.id sequence
    now,        \* wall clock, in seconds
    registered, \* what the successful Register calls returned: login, password, user ID
    held,       \* the token a client kept from an earlier Register or Login
    last,       \* the observed request: operation, inputs, store calls, result
    inflight    \* requests served concurrently: inputs, position in the code, result

vars == <<users, nextUserID, ads, nextAdID, now, registered, held, last, inflight>>

----------------------------------------------------------------------------
(* Bounds of the model.                                                     *)

MaxUsers == 2
MaxAds == 2
MaxTime == 3
TokenTTL == 2

----------------------------------------------------------------------------
(* Characters.                                                              *)

AsciiLower == {"a", "b", "x"}
AsciiUpper == {"A", "Z"}
AsciiDigit == {"0", "1", "2", "3", "4", "5", "6", "7", "8", "9"}
AsciiOther == {"_", "!", "@", "#", "$", "%", "^", "&", "*", "-", "+", " "}
Ascii == AsciiLower \cup AsciiUpper \cup AsciiDigit \cup AsciiOther

\* U+00E9 (e acute): lower-case letter; U+00C9 (E acute): upper-case letter;
\* U+00B2 (superscript two): category No, a number that is not a digit;
\* U+05D0 (alef): letter without case.  Each is two bytes in UTF-8.
NonAscii == {"U+00E9", "U+00C9", "U+00B2", "U+05D0"}

\* Number of bytes of the character's UTF-8 encoding.
Utf8Len(c) == IF c \in NonAscii THEN 2 ELSE 1

\* unicode.IsUpper, unicode.IsLower, unicode.IsNumber on a rune.
IsUpper(c) == c \in AsciiUpper \cup {"U+00C9"}
IsLower(c) == c \in AsciiLower \cup {"U+00E9"}
IsNumber(c) == c \in AsciiDigit \cup {"U+00B2"}

\* unicode.IsLetter(rune(s[0])): the FIRST BYTE of the string read as a code
\* point.  An ASCII character is its own first byte.  U+00E9 and U+00C9 start
\* with byte 0xC3 and U+00B2 with 0xC2 (both Latin-1 letters); U+05D0 starts
\* with byte 0xD7, the multiplication sign, which is no letter.
FirstByteIsLetter(c) ==
    \/ c \in AsciiLower \cup AsciiUpper
    \/ c \in {"U+00E9", "U+00C9", "U+00B2"}

\* The character class of the regular expression ^[a-zA-Z0-9_]+$.
InLoginClass(c) == c \in AsciiLower \cup AsciiUpper \cup AsciiDigit \cup {"_"}

\* len(s): the length of the string in bytes.
\* The number of characters of s whose encoding is w bytes long.
CharsOfWidth(s, w) == Cardinality({i \in 1..Len(s) : Utf8Len(s[i]) = w})

ByteLen(s) ==
    CharsOfWidth(s, 1) + 2 * CharsOfWidth(s, 2) + 3 * CharsOfWidth(s, 3) + 4 * CharsOfWidth(s, 4)

\* A string made of prefix followed by n copies of the character c.
Pad(prefix, c, n) == prefix \o [i \in 1..n |-> c]

----------------------------------------------------------------------------
(* Errors.  A Go error is modelled by the set of sentinel values that       *)
(* errors.Is finds in its chain ("is") and by the pieces of its message     *)
(* text, outermost first ("msg").                                           *)

Nil == [is |-> {}, msg |-> <<>>]

\* A package-level sentinel: var ErrX = errors.New(text).
Sentinel(name, text) == [is |-> {name}, msg |-> <<text>>]

\* errors.New(text) made on the spot: it equals no sentinel.
NewError(text) == [is |-> {}, msg |-> <<text>>]

\* fmt.Errorf("%w: %v", outer, inner): wraps outer, prints inner.
ErrorfWV(outer, inner) == [is |-> outer.is, msg |-> outer.msg \o inner.msg]

\* fmt.Errorf("%w: <text>", outer).
ErrorfWText(outer, text) == [is |-> outer.is, msg |-> outer.msg \o <<text>>]

\* fmt.Errorf("<context>: %w", inner): keeps the chain of inner.
ErrorfCtx(context, inner) == [is |-> inner.is, msg |-> <<context>> \o inner.msg]

ErrorsIs(err, target) == target.is \subseteq err.is /\ target.is # {}

\* internal/services/errors.go
SvcErrUserNotFound == Sentinel("services.ErrUserNotFound", "user not found")
SvcErrInvalidCredentials == Sentinel("services.ErrInvalidCredentials", "invalid credentials")
SvcErrInvalidInput == Sentinel("services.ErrInvalidInput", "invalid input")
SvcErrUserExists == Sentinel("services.ErrUserExists", "user already exists")
SvcErrConflict == Sentinel("services.ErrConflict", "resource conflict")

\* internal/storage/errors.go
StoErrUserExists == Sentinel("storage.ErrUserExists", "user already exists")
StoErrUserNotFound == Sentinel("storage.ErrUserNotFound", "user not found")
StoErrAdExists == Sentinel("storage.ErrAdExists", "ad already exists")
StoErrForeignKeyViolation == Sentinel("storage.ErrForeignKeyViolation", "foreign key constraint violation")

\* Failures of the database driver that the store passes on: a lost
\* connection, and the request's context being cancelled or timing out.
PgConnError == Sentinel("pgconn.ConnectError", "connection refused")
CtxCanceled == Sentinel("context.Canceled", "context canceled")

----------------------------------------------------------------------------
(* Credential policy (internal/services/auth/auth.go).                      *)

LoginMinLen == 3
LoginMaxLen == 50
PasswordMinLen == 8
PasswordMaxLen == 72

ErrInvalidLogin == Sentinel("auth.ErrInvalidLogin", "login must be 3-50 characters long, start with a letter, and contain only letters, numbers, and underscores")
ErrInvalidPassword == Sentinel("auth.ErrInvalidPassword", "password must be 8-72 characters long and contain at least one uppercase letter, one lowercase letter, one number, and one special character")

\* regexp.MatchString(`^[a-zA-Z0-9_]+$`, login)
MatchLoginRegexp(login) ==
    /\ Len(login) >= 1
    /\ \A i \in 1..Len(login) : InLoginClass(login[i])

\* Mutant: the first character is not looked at.
validateLoginAnyFirstCharacter(login) ==
    IF ByteLen(login) < LoginMinLen \/ ByteLen(login) > LoginMaxLen THEN ErrInvalidLogin
    ELSE IF ~MatchLoginRegexp(login) THEN ErrInvalidLogin
    ELSE Nil

validateLogin(login) ==
    IF ByteLen(login) < LoginMinLen \/ ByteLen(login) > LoginMaxLen THEN ErrInvalidLogin
    ELSE IF ~FirstByteIsLetter(login[1]) THEN ErrInvalidLogin
    ELSE IF ~MatchLoginRegexp(login) THEN ErrInvalidLogin
    ELSE Nil

isSpecialCharacter(r) == r \in {"!", "@", "#", "$", "%", "^", "&", "*"}

NoFlags == [hasUpper |-> FALSE, hasLower |-> FALSE, hasNumber |-> FALSE, hasSpecial |-> FALSE]

AllFlags(f) == f.hasUpper /\ f.hasLower /\ f.hasNumber /\ f.hasSpecial

\* The switch of the loop body: the first case that matches sets its flag.
classify(f, c) ==
    IF IsUpper(c) THEN [f EXCEPT !.hasUpper = TRUE]
    ELSE IF IsLower(c) THEN [f EXCEPT !.hasLower = TRUE]
    ELSE IF IsNumber(c) THEN [f EXCEPT !.hasNumber = TRUE]
    ELSE IF isSpecialCharacter(c) THEN [f EXCEPT !.hasSpecial = TRUE]
    ELSE f

\* for _, c := range password { switch ...; if all flags { break } }
RECURSIVE scanPassword(_, _, _)
scanPassword(password, i, f) ==
    IF i > Len(password) THEN f
    ELSE LET g == classify(f, password[i])
         IN  IF AllFlags(g) THEN g ELSE scanPassword(password, i + 1, g)

validatePassword(password) ==
    IF ByteLen(password) < PasswordMinLen \/ ByteLen(password) > PasswordMaxLen
    THEN ErrInvalidPassword
    ELSE LET f == scanPassword(password, 1, NoFlags)
         IN  IF ~f.hasUpper \/ ~f.hasLower \/ ~f.hasNumber \/ ~f.hasSpecial
             THEN ErrInvalidPassword
             ELSE Nil

----------------------------------------------------------------------------
(* The user store (internal/storage/postgres/postgres.go).                  *)

\* What the database connection does to one store call: it answers, the
\* connection fails, or the request's context is cancelled first.
StoreFaults == {"none", "conn", "canceled"}

FaultError(fault) == IF fault = "canceled" THEN CtxCanceled ELSE PgConnError

\* A nil *domain.User.
NilUser == [nil |-> TRUE]

\* The zero time.Time.
ZeroTime == 0

RowsWithLogin(login) == {i \in 1..Len(users) : users[i].Login = login}
RowsWithID(id) == {i \in 1..Len(users) : users[i].ID = id}

\* Mutant: the users table has no uniqueness constraint on the login.
UserStoreCreateUserWithoutUniqueLogin(u, fault) ==
    IF fault # "none"
    THEN [rows |-> users, nextID |-> nextUserID, u |-> u,
          err |-> ErrorfCtx("storage.CreateUser", FaultError(fault))]
    ELSE LET row == [u EXCEPT !.ID = nextUserID, !.CreatedAt = now]
         IN  [rows |-> Append(users, row), nextID |-> nextUserID + 1, u |-> row, err |-> Nil]

\* INSERT INTO users (login, password_hash) ... RETURNING id, created_at.
\* The result carries the table after the call, the user as the call left
\* it (ID and CreatedAt scanned into it on success) and the error.
UserStoreCreateUser(u, fault) ==
    IF fault # "none"
    THEN [rows |-> users, nextID |-> nextUserID, u |-> u,
          err |-> ErrorfCtx("storage.CreateUser", FaultError(fault))]
    ELSE IF RowsWithLogin(u.Login) # {}
    THEN [rows |-> users, nextID |-> nextUserID, u |-> u, err |-> StoErrUserExists]
    ELSE LET row == [u EXCEPT !.ID = nextUserID, !.CreatedAt = now]
         IN  [rows |-> Append(users, row), nextID |-> nextUserID + 1, u |-> row, err |-> Nil]

\* SELECT ... FROM users WHERE login = $1
UserStoreFindByLogin(login, fault) ==
    IF fault # "none"
    THEN [u |-> NilUser, err |-> ErrorfCtx("storage.FindByLogin", FaultError(fault))]
    ELSE IF RowsWithLogin(login) = {}
    THEN [u |-> NilUser, err |-> StoErrUserNotFound]
    ELSE [u |-> users[CHOOSE i \in RowsWithLogin(login) : TRUE], err |-> Nil]

\* SELECT ... FROM users WHERE id = $1
UserStoreFindUserByID(id, fault) ==
    IF fault # "none"
    THEN [u |-> NilUser, err |-> ErrorfCtx("storage.FindUserByID", FaultError(fault))]
    ELSE IF RowsWithID(id) = {}
    THEN [u |-> NilUser, err |-> StoErrUserNotFound]
    ELSE [u |-> users[CHOOSE i \in RowsWithID(id) : TRUE], err |-> Nil]

\* One entry of a request's log of store calls.
Call(fn, arg, err) == [fn |-> fn, arg |-> arg, err |-> err]

----------------------------------------------------------------------------
(* Password hashing (golang.org/x/crypto/bcrypt as the auth service uses    *)
(* it).  A hash records the algorithm, the cost and the password it was     *)
(* made from; it is never equal to the password itself.                     *)

BcryptDefaultCost == 10

bcryptGenerateFromPassword(password) ==
    IF ByteLen(password) > PasswordMaxLen
    THEN [hash |-> [alg |-> "none", cost |-> 0, of |-> <<>>],
          err |-> Sentinel("bcrypt.ErrPasswordTooLong", "bcrypt: password length exceeds 72 bytes")]
    ELSE [hash |-> [alg |-> "bcrypt", cost |-> BcryptDefaultCost, of |-> password], err |-> Nil]

bcryptCompareHashAndPassword(hash, password) ==
    IF hash.alg = "bcrypt" /\ hash.of = password
    THEN Nil
    ELSE Sentinel("bcrypt.ErrMismatchedHashAndPassword", "crypto/bcrypt: hashedPassword is not the hash of the given password")

----------------------------------------------------------------------------
(* Decimal conversion of the token subject.                                 *)

DigitChars == <<"0", "1", "2", "3", "4", "5", "6", "7", "8", "9">>
DigitChar(d) == DigitChars[d + 1]
DigitValue(c) == CHOOSE d \in 0..9 : DigitChars[d + 1] = c

RECURSIVE FormatNat(_)
FormatNat(n) ==
    IF n < 10 THEN <<DigitChar(n)>>
    ELSE FormatNat(n \div 10) \o <<DigitChar(n % 10)>>

\* strconv.FormatInt(n, 10)
FormatInt(n) == IF n < 0 THEN <<"-">> \o FormatNat(0 - n) ELSE FormatNat(n)

RECURSIVE SkipSpace(_)
SkipSpace(s) == IF s # <<>> /\ Head(s) = " " THEN SkipSpace(Tail(s)) ELSE s

\* The longest prefix of decimal digits of s, as [n digits read, value].
RECURSIVE ScanDigits(_, _, _)
ScanDigits(s, n, value) ==
    IF s # <<>> /\ Head(s) \in AsciiDigit
    THEN ScanDigits(Tail(s), n + 1, 10 * value + DigitValue(Head(s)))
    ELSE [n |-> n, value |-> value]

\* fmt.Sscanf(sub, "%d", &userID): skips leading spaces, accepts a sign, reads
\* the decimal digits that follow and ignores whatever comes after them; it
\* fails when no digit was read.
SscanfInt(s) ==
    LET t == SkipSpace(s)
        signed == t # <<>> /\ Head(t) \in {"+", "-"}
        body == IF signed THEN Tail(t) ELSE t
        d == ScanDigits(body, 0, 0)
    IN  IF d.n = 0
        THEN [value |-> 0, err |-> NewError("expected integer")]
        ELSE [value |-> IF signed /\ Head(t) = "-" THEN 0 - d.value ELSE d.value, err |-> Nil]

----------------------------------------------------------------------------
(* Tokens (github.com/golang-jwt/jwt/v5 as the auth service uses it).  A    *)
(* token is modelled by its header algorithm, the key its signature was     *)
(* made with, and its claims.                                               *)

\* The service's secret (JWT_SECRET) and a key the service does not know.
Secret == "JWT_SECRET"
OtherSecret == "another-secret"

\* The empty token string returned beside an error.
EmptyToken == [alg |-> "", key |-> "", sub |-> <<>>, iat |-> 0, exp |-> 0]

\* The algorithms whose method is a *jwt.SigningMethodHMAC.
HMACMethods == {"HS256", "HS384", "HS512"}

\* Mutant: the subject claim is left out.
generateTokenWithoutSubject(u) ==
    [alg |-> "HS256", key |-> Secret, sub |-> <<>>, iat |-> now, exp |-> now + TokenTTL]

generateToken(u) ==
    [alg |-> "HS256", key |-> Secret, sub |-> FormatInt(u.ID),
     iat |-> now, exp |-> now + TokenTTL]

\* Mutant: the expiry of the token is not looked at.
jwtParseIgnoringExpiry(token) ==
    IF token.alg = ""
    THEN Sentinel("jwt.ErrTokenMalformed", "token is malformed")
    ELSE IF token.alg \notin {"HS256", "HS384", "HS512"}
    THEN ErrorfWText(Sentinel("jwt.ErrTokenUnverifiable", "token is unverifiable"), "unexpected signing method")
    ELSE IF token.key # Secret
    THEN Sentinel("jwt.ErrTokenSignatureInvalid", "token signature is invalid")
    ELSE Nil

\* jwt.Parse with the service's key function: the key function refuses every
\* non-HMAC method, the signature is verified under the secret, and then the
\* claims are validated: exp must lie after the current time.
jwtParse(token) ==
    IF token.alg = ""
    THEN Sentinel("jwt.ErrTokenMalformed", "token is malformed")
    ELSE IF token.alg \notin HMACMethods
    THEN ErrorfWText(Sentinel("jwt.ErrTokenUnverifiable", "token is unverifiable"), "unexpected signing method")
    ELSE IF token.key # Secret
    THEN Sentinel("jwt.ErrTokenSignatureInvalid", "token signature is invalid")
    ELSE IF ~(now < token.exp)
    THEN Sentinel("jwt.ErrTokenExpired", "token is expired")
    ELSE Nil

----------------------------------------------------------------------------
(* Auth service (internal/services/auth/auth.go).  Each operation is        *)
(* computed as a result record: the store after it, the log of the store    *)
(* calls it made, and what it returned.                                     *)

\* Mutant: the response copies the whole user record.
ToUserResponseWholeUser(user) == user

\* dto.ToUserResponse: the registration response built by the transport layer.
ToUserResponse(user) == [ID |-> user.ID, Login |-> user.Login, CreatedAt |-> user.CreatedAt]

RegisterReturn(rows, nextID, calls, token, user, err) ==
    [rows |-> rows, nextID |-> nextID, calls |-> calls, token |-> token, user |-> user, err |-> err]

\* Mutant: only the login is checked before the user is created.
RegisterValidateLoginOnly(login, password) ==
    LET loginErr == validateLogin(login)
    IN  IF loginErr # Nil THEN ErrorfWV(SvcErrInvalidInput, loginErr) ELSE Nil

\* Register, lines 37-42: the login check, then the password check.
RegisterValidate(login, password) ==
    LET loginErr == validateLogin(login)
        passwordErr == validatePassword(password)
    IN  IF loginErr # Nil THEN ErrorfWV(SvcErrInvalidInput, loginErr)
        ELSE IF passwordErr # Nil THEN ErrorfWV(SvcErrInvalidInput, passwordErr)
        ELSE Nil

\* Mutant: every failure of CreateUser is wrapped, the conflict too.
RegisterStoreErrorAlwaysWrapped(err) == ErrorfCtx("failed to create user", err)

\* Register, lines 55-58: the error returned for a failed CreateUser.
RegisterStoreError(err) ==
    IF ErrorsIs(err, StoErrUserExists) THEN SvcErrUserExists
    ELSE ErrorfCtx("failed to create user", err)

RegisterResult(login, password, fault) ==
    LET invalid == RegisterValidate(login, password)
    IN
    IF invalid # Nil
    THEN RegisterReturn(users, nextUserID, <<>>, EmptyToken, NilUser, invalid)
    ELSE LET h == bcryptGenerateFromPassword(password)
             u == [ID |-> 0, Login |-> login, PasswordHash |-> h.hash, CreatedAt |-> ZeroTime]
             c == UserStoreCreateUser(u, fault)
             calls == <<Call("CreateUser", u, c.err)>>
         IN  IF h.err # Nil
             THEN RegisterReturn(users, nextUserID, <<>>, EmptyToken, NilUser,
                                 ErrorfCtx("failed to hash password", h.err))
             ELSE IF c.err # Nil
             THEN RegisterReturn(c.rows, c.nextID, calls, EmptyToken, NilUser,
                                 RegisterStoreError(c.err))
             ELSE RegisterReturn(c.rows, c.nextID, calls, generateToken(c.u), c.u, Nil)

LoginReturn(calls, token, err) == [calls |-> calls, token |-> token, err |-> err]

\* Mutant: the password is held to the policy of Register.
LoginValidateWithPasswordPolicy(login, password) ==
    LET loginErr == validateLogin(login)
    IN
    IF loginErr # Nil THEN ErrorfWV(SvcErrInvalidInput, loginErr)
    ELSE IF validatePassword(password) # Nil
    THEN ErrorfWV(SvcErrInvalidInput, validatePassword(password))
    ELSE Nil

\* Login, lines 71-76: the login check, then the password must not be empty.
LoginValidate(login, password) ==
    LET loginErr == validateLogin(login)
    IN
    IF loginErr # Nil THEN ErrorfWV(SvcErrInvalidInput, loginErr)
    ELSE IF password = <<>> THEN ErrorfWText(SvcErrInvalidInput, "password is required")
    ELSE Nil

\* Mutant: a login that is not found is reported as such.
LoginLookupErrorLeaksNotFound(err) ==
    IF ErrorsIs(err, StoErrUserNotFound) THEN SvcErrUserNotFound ELSE err

\* Login, lines 79-84: the error returned for a failed FindByLogin.
LoginLookupError(err) ==
    IF ErrorsIs(err, StoErrUserNotFound) THEN SvcErrInvalidCredentials ELSE err

LoginResult(login, password, fault) ==
    LET invalid == LoginValidate(login, password)
    IN
    IF invalid # Nil
    THEN LoginReturn(<<>>, EmptyToken, invalid)
    ELSE LET f == UserStoreFindByLogin(login, fault)
             calls == <<Call("FindByLogin", login, f.err)>>
         IN  IF f.err # Nil
             THEN LoginReturn(calls, EmptyToken, LoginLookupError(f.err))
             ELSE IF bcryptCompareHashAndPassword(f.u.PasswordHash, password) # Nil
             THEN LoginReturn(calls, EmptyToken, SvcErrInvalidCredentials)
             ELSE LoginReturn(calls, generateToken(f.u), Nil)

ParseTokenReturn(calls, user, err) == [calls |-> calls, user |-> user, err |-> err]

\* ParseToken, lines 123-128: the error returned for a failed FindUserByID.
ParseTokenLookupError(err) ==
    IF ErrorsIs(err, StoErrUserNotFound) THEN SvcErrUserNotFound
    ELSE ErrorfCtx("failed to find user by id", err)

ParseTokenResult(token, fault) ==
    IF jwtParse(token) # Nil
    THEN ParseTokenReturn(<<>>, NilUser, ErrorfCtx("failed to parse token", jwtParse(token)))
    ELSE LET id == SscanfInt(token.sub)
             f == UserStoreFindUserByID(id.value, fault)
             calls == <<Call("FindUserByID", id.value, f.err)>>
         IN  IF id.err # Nil
             THEN ParseTokenReturn(<<>>, NilUser,
                                   ErrorfCtx("failed to parse user ID from token subject", id.err))
             ELSE IF f.err # Nil
             THEN ParseTokenReturn(calls, NilUser, ParseTokenLookupError(f.err))
             ELSE ParseTokenReturn(calls, f.u, Nil)

----------------------------------------------------------------------------
(* Listing query (domain.ListAdsParams).  Sort key and order are whole      *)
(* strings; a price bound is a *int64, nil or pointing at a value.          *)

\* Machine integers: Go's int is modelled IntBits wide, two's complement.
IntBits == 16
IntModulus == 2 ^ IntBits
MaxInt == 2 ^ (IntBits - 1) - 1
MinInt == 0 - 2 ^ (IntBits - 1)

WrapInt(x) == ((x - MinInt) % IntModulus) + MinInt

NilPrice == [nil |-> TRUE, v |-> 0]
PriceOf(v) == [nil |-> FALSE, v |-> v]

\* A nil *domain.ListAdsParams.
NilParams == [nil |-> TRUE]

DefaultPage == 1
DefaultLimit == 10
MaxLimit == 100

GetOffset(p) == IF p.Page <= 1 THEN 0 ELSE WrapInt((p.Page - 1) * p.Limit)

\* Mutant: the default limit is one the validator refuses.
SetDefaultsLimitThousand(p) ==
    [p EXCEPT !.SortBy = IF p.SortBy = "" THEN "created_at" ELSE p.SortBy,
              !.Order = IF p.Order = "" THEN "desc" ELSE p.Order,
              !.Page = IF p.Page <= 0 THEN DefaultPage ELSE p.Page,
              !.Limit = IF p.Limit <= 0 THEN 1000 ELSE p.Limit]

\* Mutant: the order is always set to the default.
SetDefaultsForcingOrder(p) ==
    [p EXCEPT !.SortBy = IF p.SortBy = "" THEN "created_at" ELSE p.SortBy,
              !.Order = "desc",
              !.Page = IF p.Page <= 0 THEN DefaultPage ELSE p.Page,
              !.Limit = IF p.Limit <= 0 THEN DefaultLimit ELSE p.Limit]

\* Mutant: a limit left unset stays unset.
SetDefaultsKeepingLimit(p) ==
    [p EXCEPT !.SortBy = IF p.SortBy = "" THEN "created_at" ELSE p.SortBy,
              !.Order = IF p.Order = "" THEN "desc" ELSE p.Order,
              !.Page = IF p.Page <= 0 THEN DefaultPage ELSE p.Page]

SetDefaults(p) ==
    [p EXCEPT !.SortBy = IF p.SortBy = "" THEN "created_at" ELSE p.SortBy,
              !.Order = IF p.Order = "" THEN "desc" ELSE p.Order,
              !.Page = IF p.Page <= 0 THEN DefaultPage ELSE p.Page,
              !.Limit = IF p.Limit <= 0 THEN DefaultLimit ELSE p.Limit]

\* Mutant: the order is not looked at.
validateListParamsAnyOrder(params) ==
    IF params = NilParams THEN NewError("params cannot be nil")
    ELSE IF params.SortBy # "" /\ params.SortBy # "price" /\ params.SortBy # "created_at"
    THEN NewError("invalid sort_by parameter: must be 'price' or 'created_at'")
    ELSE IF params.Page < 0 THEN NewError("page must be positive")
    ELSE IF params.Limit < 0 THEN NewError("limit must be positive")
    ELSE IF params.Limit > MaxLimit THEN NewError("limit cannot exceed 100")
    ELSE IF ~params.MinPrice.nil /\ params.MinPrice.v < 0
    THEN NewError("min_price must be non-negative")
    ELSE IF ~params.MaxPrice.nil /\ params.MaxPrice.v < 0
    THEN NewError("max_price must be non-negative")
    ELSE IF ~params.MinPrice.nil /\ ~params.MaxPrice.nil /\ params.MinPrice.v > params.MaxPrice.v
    THEN NewError("min_price cannot be greater than max_price")
    ELSE Nil

\* Mutant: a limit above the maximum is let through.
validateListParamsAnyLimit(params) ==
    IF params = NilParams THEN NewError("params cannot be nil")
    ELSE IF params.SortBy # "" /\ params.SortBy # "price" /\ params.SortBy # "created_at"
    THEN NewError("invalid sort_by parameter: must be 'price' or 'created_at'")
    ELSE IF params.Order # "" /\ params.Order # "asc" /\ params.Order # "desc"
    THEN NewError("invalid order parameter: must be 'asc' or 'desc'")
    ELSE IF params.Page < 0 THEN NewError("page must be positive")
    ELSE IF params.Limit < 0 THEN NewError("limit must be positive")
    ELSE IF ~params.MinPrice.nil /\ params.MinPrice.v < 0
    THEN NewError("min_price must be non-negative")
    ELSE IF ~params.MaxPrice.nil /\ params.MaxPrice.v < 0
    THEN NewError("max_price must be non-negative")
    ELSE IF ~params.MinPrice.nil /\ ~params.MaxPrice.nil /\ params.MinPrice.v > params.MaxPrice.v
    THEN NewError("min_price cannot be greater than max_price")
    ELSE Nil

\* Mutant: the two price bounds are not compared.
validateListParamsAnyRange(params) ==
    IF params = NilParams THEN NewError("params cannot be nil")
    ELSE IF params.SortBy # "" /\ params.SortBy # "price" /\ params.SortBy # "created_at"
    THEN NewError("invalid sort_by parameter: must be 'price' or 'created_at'")
    ELSE IF params.Order # "" /\ params.Order # "asc" /\ params.Order # "desc"
    THEN NewError("invalid order parameter: must be 'asc' or 'desc'")
    ELSE IF params.Page < 0 THEN NewError("page must be positive")
    ELSE IF params.Limit < 0 THEN NewError("limit must be positive")
    ELSE IF params.Limit > MaxLimit THEN NewError("limit cannot exceed 100")
    ELSE IF ~params.MinPrice.nil /\ params.MinPrice.v < 0
    THEN NewError("min_price must be non-negative")
    ELSE IF ~params.MaxPrice.nil /\ params.MaxPrice.v < 0
    THEN NewError("max_price must be non-negative")
    ELSE Nil

\* Mutant: the limit is checked before the sort key and the order.
validateListParamsLimitFirst(params) ==
    IF params = NilParams THEN NewError("params cannot be nil")
    ELSE IF params.Limit < 0 THEN NewError("limit must be positive")
    ELSE IF params.Limit > MaxLimit THEN NewError("limit cannot exceed 100")
    ELSE IF params.SortBy # "" /\ params.SortBy # "price" /\ params.SortBy # "created_at"
    THEN NewError("invalid sort_by parameter: must be 'price' or 'created_at'")
    ELSE IF params.Order # "" /\ params.Order # "asc" /\ params.Order # "desc"
    THEN NewError("invalid order parameter: must be 'asc' or 'desc'")
    ELSE IF params.Page < 0 THEN NewError("page must be positive")
    ELSE IF ~params.MinPrice.nil /\ params.MinPrice.v < 0
    THEN NewError("min_price must be non-negative")
    ELSE IF ~params.MaxPrice.nil /\ params.MaxPrice.v < 0
    THEN NewError("max_price must be non-negative")
    ELSE IF ~params.MinPrice.nil /\ ~params.MaxPrice.nil /\ params.MinPrice.v > params.MaxPrice.v
    THEN NewError("min_price cannot be greater than max_price")
    ELSE Nil

validateListParams(params) ==
    IF params = NilParams THEN NewError("params cannot be nil")
    ELSE IF params.SortBy # "" /\ params.SortBy # "price" /\ params.SortBy # "created_at"
    THEN NewError("invalid sort_by parameter: must be 'price' or 'created_at'")
    ELSE IF params.Order # "" /\ params.Order # "asc" /\ params.Order # "desc"
    THEN NewError("invalid order parameter: must be 'asc' or 'desc'")
    ELSE IF params.Page < 0 THEN NewError("page must be positive")
    ELSE IF params.Limit < 0 THEN NewError("limit must be positive")
    ELSE IF params.Limit > MaxLimit THEN NewError("limit cannot exceed 100")
    ELSE IF ~params.MinPrice.nil /\ params.MinPrice.v < 0
    THEN NewError("min_price must be non-negative")
    ELSE IF ~params.MaxPrice.nil /\ params.MaxPrice.v < 0
    THEN NewError("max_price must be non-negative")
    ELSE IF ~params.MinPrice.nil /\ ~params.MaxPrice.nil /\ params.MinPrice.v > params.MaxPrice.v
    THEN NewError("min_price cannot be greater than max_price")
    ELSE Nil

----------------------------------------------------------------------------
(* The ad store (internal/storage/postgres/postgres.go).                    *)

\* What the database does to an INSERT INTO ads: besides the faults of any
\* store call, it may report a referential-integrity violation or a
\* uniqueness violation of a constraint of the ads table.
AdInsertFaults == StoreFaults \cup {"fk", "unique"}

\* WHERE price >= $min AND price <= $max
PriceFilter(params, row) ==
    /\ params.MinPrice.nil \/ row.Price >= params.MinPrice.v
    /\ params.MaxPrice.nil \/ row.Price <= params.MaxPrice.v

SortKey(params, row) == IF params.SortBy = "price" THEN row.Price ELSE row.CreatedAt

\* ORDER BY <key> <order>: row a comes before row b.  Rows with equal keys
\* are kept in insertion order.
Before(params, a, b) ==
    IF SortKey(params, a) = SortKey(params, b) THEN a.ID < b.ID
    ELSE IF params.Order = "asc" THEN SortKey(params, a) < SortKey(params, b)
    ELSE SortKey(params, a) > SortKey(params, b)

RECURSIVE InsertSorted(_, _, _)
InsertSorted(params, row, sorted) ==
    IF sorted = <<>> THEN <<row>>
    ELSE IF Before(params, row, Head(sorted)) THEN <<row>> \o sorted
    ELSE <<Head(sorted)>> \o InsertSorted(params, row, Tail(sorted))

RECURSIVE SelectSorted(_, _, _)
SelectSorted(params, rows, i) ==
    IF i > Len(rows) THEN <<>>
    ELSE IF PriceFilter(params, rows[i])
    THEN InsertSorted(params, rows[i], SelectSorted(params, rows, i + 1))
    ELSE SelectSorted(params, rows, i + 1)

\* LIMIT $limit OFFSET $offset
LimitOffset(rows, limit, offset) ==
    SubSeq(rows, offset + 1, IF offset + limit < Len(rows) THEN offset + limit ELSE Len(rows))

AdStoreListAds(params, fault) ==
    IF params = NilParams
    THEN [ads |-> <<>>, err |-> NewError("storage.ListAds: params cannot be nil")]
    ELSE IF fault # "none"
    THEN [ads |-> <<>>, err |-> ErrorfCtx("storage.ListAds", FaultError(fault))]
    ELSE IF GetOffset(params) < 0 \/ params.Limit < 0
    THEN [ads |-> <<>>,
          err |-> ErrorfCtx("storage.ListAds", Sentinel("pgconn.PgError", "OFFSET and LIMIT must not be negative"))]
    ELSE [ads |-> LimitOffset(SelectSorted(params, ads, 1), params.Limit, GetOffset(params)), err |-> Nil]

\* INSERT INTO ads (...) RETURNING id, created_at.  The result carries the
\* table after the call, the ad as the call left it, the returned ID and the
\* error.
AdStoreCreateAd(ad, fault) ==
    IF fault = "fk" \/ (fault = "none" /\ RowsWithID(ad.UserID) = {})
    THEN [rows |-> ads, nextID |-> nextAdID, ad |-> ad, id |-> 0, err |-> StoErrForeignKeyViolation]
    ELSE IF fault = "unique"
    THEN [rows |-> ads, nextID |-> nextAdID, ad |-> ad, id |-> 0, err |-> StoErrAdExists]
    ELSE IF fault # "none"
    THEN [rows |-> ads, nextID |-> nextAdID, ad |-> ad, id |-> 0,
          err |-> ErrorfCtx("storage.CreateAd", FaultError(fault))]
    ELSE LET row == [ad EXCEPT !.ID = nextAdID, !.CreatedAt = now]
         IN  [rows |-> Append(ads, row), nextID |-> nextAdID + 1, ad |-> row, id |-> nextAdID, err |-> Nil]

----------------------------------------------------------------------------
(* Ad service (internal/services/ads/ads.go).                               *)

TitleMaxLen == 120

\* Mutant: the price is not looked at.
validateAdAnyPrice(ad) ==
    IF ad.Title = <<>> THEN NewError("title is required")
    ELSE IF ByteLen(ad.Title) > TitleMaxLen THEN NewError("title is too long")
    ELSE IF ad.Text = <<>> THEN NewError("text cannot be empty")
    ELSE IF ad.UserID = 0 THEN NewError("user ID is required")
    ELSE Nil

validateAd(ad) ==
    IF ad.Title = <<>> THEN NewError("title is required")
    ELSE IF ByteLen(ad.Title) > TitleMaxLen THEN NewError("title is too long")
    ELSE IF ad.Text = <<>> THEN NewError("text cannot be empty")
    ELSE IF ad.UserID = 0 THEN NewError("user ID is required")
    ELSE IF ad.Price < 0 THEN NewError("price must be non-negative")
    ELSE Nil

\* rows, nextID: the ads table after the request; ad: the caller's ad object
\* after the request (the service and the store write into it).
CreateAdReturn(rows, nextID, calls, ad, id, err) ==
    [rows |-> rows, nextID |-> nextID, calls |-> calls, ad |-> ad, id |-> id, err |-> err]

\* Mutant: an author that is not found is reported as a not-found error.
CreateAdLookupErrorAsNotFound(err) ==
    IF ErrorsIs(err, StoErrUserNotFound) THEN SvcErrUserNotFound
    ELSE ErrorfCtx("userRepo.FindUserByID", err)

\* CreateAd, lines 46-53: the error returned for a failed FindUserByID.
CreateAdLookupError(err) ==
    IF ErrorsIs(err, StoErrUserNotFound) THEN ErrorfWText(SvcErrInvalidInput, "user not found")
    ELSE ErrorfCtx("userRepo.FindUserByID", err)

\* Mutant: every failure of the insert but a foreign key violation is
\* reported as a conflict.
CreateAdStoreErrorOtherwiseConflict(err) ==
    IF ErrorsIs(err, StoErrForeignKeyViolation)
    THEN ErrorfWText(SvcErrInvalidInput, "invalid data reference")
    ELSE SvcErrConflict

\* CreateAd, lines 57-66: the error returned for a failed insert.
CreateAdStoreError(err) ==
    IF ErrorsIs(err, StoErrForeignKeyViolation)
    THEN ErrorfWText(SvcErrInvalidInput, "invalid data reference")
    ELSE IF ErrorsIs(err, StoErrAdExists) THEN SvcErrConflict
    ELSE ErrorfCtx("adRepo.CreateAd", err)

\* Mutant: an author login supplied by the caller is kept.
CreateAdResultKeepingAuthorLogin(ad, userFault, adFault) ==
    LET invalid == validateAd(ad)
    IN
    IF invalid # Nil
    THEN CreateAdReturn(ads, nextAdID, <<>>, ad, 0, ErrorfWV(SvcErrInvalidInput, invalid))
    ELSE LET f == UserStoreFindUserByID(ad.UserID, userFault)
             findCall == Call("FindUserByID", ad.UserID, f.err)
         IN  IF f.err # Nil
             THEN CreateAdReturn(ads, nextAdID, <<findCall>>, ad, 0, CreateAdLookupError(f.err))
             ELSE LET withLogin == IF ad.AuthorLogin = <<>>
                                   THEN [ad EXCEPT !.AuthorLogin = f.u.Login] ELSE ad
                      c == AdStoreCreateAd(withLogin, adFault)
                      calls == <<findCall, Call("CreateAd", withLogin, c.err)>>
                  IN  IF c.err # Nil
                      THEN CreateAdReturn(c.rows, c.nextID, calls, c.ad, 0, CreateAdStoreError(c.err))
                      ELSE CreateAdReturn(c.rows, c.nextID, calls, c.ad, c.id, Nil)

CreateAdResult(ad, userFault, adFault) ==
    LET invalid == validateAd(ad)
    IN
    IF invalid # Nil
    THEN CreateAdReturn(ads, nextAdID, <<>>, ad, 0, ErrorfWV(SvcErrInvalidInput, invalid))
    ELSE LET f == UserStoreFindUserByID(ad.UserID, userFault)
             findCall == Call("FindUserByID", ad.UserID, f.err)
         IN  IF f.err # Nil
             THEN CreateAdReturn(ads, nextAdID, <<findCall>>, ad, 0, CreateAdLookupError(f.err))
             ELSE LET withLogin == [ad EXCEPT !.AuthorLogin = f.u.Login]
                      c == AdStoreCreateAd(withLogin, adFault)
                      calls == <<findCall, Call("CreateAd", withLogin, c.err)>>
                  IN  IF c.err # Nil
                      THEN CreateAdReturn(c.rows, c.nextID, calls, c.ad, 0, CreateAdStoreError(c.err))
                      ELSE CreateAdReturn(c.rows, c.nextID, calls, c.ad, c.id, Nil)

\* params: the caller's query object after the request.
ListAdsReturn(calls, params, result, err) ==
    [calls |-> calls, params |-> params, ads |-> result, err |-> err]

\* Mutant: the defaults are written before the query is validated.
ListAdsResultDefaultsFirst(params, fault) ==
    LET q == SetDefaults(params)
        invalid == validateListParams(q)
    IN
    IF invalid # Nil
    THEN ListAdsReturn(<<>>, q, <<>>, ErrorfWV(SvcErrInvalidInput, invalid))
    ELSE LET r == AdStoreListAds(q, fault)
             calls == <<Call("ListAds", q, r.err)>>
         IN  IF r.err # Nil
             THEN ListAdsReturn(calls, q, <<>>, ErrorfCtx("ads.ListAds", r.err))
             ELSE ListAdsReturn(calls, q, r.ads, Nil)

\* Mutant: a failed store call is made a second time.
ListAdsResultRetryingOnce(params, fault) ==
    LET invalid == validateListParams(params)
    IN
    IF invalid # Nil
    THEN ListAdsReturn(<<>>, params, <<>>, ErrorfWV(SvcErrInvalidInput, invalid))
    ELSE LET q == SetDefaults(params)
             r == AdStoreListAds(q, fault)
             calls == IF r.err # Nil
                      THEN <<Call("ListAds", q, r.err), Call("ListAds", q, r.err)>>
                      ELSE <<Call("ListAds", q, r.err)>>
         IN  IF r.err # Nil
             THEN ListAdsReturn(calls, q, <<>>, ErrorfCtx("ads.ListAds", r.err))
             ELSE ListAdsReturn(calls, q, r.ads, Nil)

ListAdsResult(params, fault) ==
    LET invalid == validateListParams(params)
    IN
    IF invalid # Nil
    THEN ListAdsReturn(<<>>, params, <<>>, ErrorfWV(SvcErrInvalidInput, invalid))
    ELSE LET q == SetDefaults(params)
             r == AdStoreListAds(q, fault)
             calls == <<Call("ListAds", q, r.err)>>
         IN  IF r.err # Nil
             THEN ListAdsReturn(calls, q, <<>>, ErrorfCtx("ads.ListAds", r.err))
             ELSE ListAdsReturn(calls, q, r.ads, Nil)

----------------------------------------------------------------------------
(* Requests as steps of the system.  Each action serves one request from    *)
(* start to end.  A run follows the traffic that builds up the stores, the  *)
(* clock and the client's token, and ends with one observed request, which  *)
(* is recorded in last with its inputs, its store calls and its result.     *)
(* The requests before it are served by the same actions and not recorded.  *)

NoRequest == [op |-> "none"]
NoHeld == [none |-> TRUE]
NilResponse == [nil |-> TRUE]

\* No request has been observed yet.
Running == last = NoRequest

Register(login, password, fault, observed) ==
    /\ Running
    /\ \E r \in {RegisterResult(login, password, fault)} :
               /\ Len(r.rows) <= MaxUsers
               /\ users' = r.rows
               /\ nextUserID' = r.nextID
               /\ registered' = IF r.err = Nil
                                THEN registered \cup {[login |-> login, password |-> password, id |-> r.user.ID]}
                                ELSE registered
               /\ held' = IF r.err = Nil THEN [token |-> r.token, login |-> login] ELSE held
               /\ last' = IF observed
                          THEN [op |-> "Register", login |-> login, password |-> password,
                                calls |-> r.calls, token |-> r.token, user |-> r.user, err |-> r.err,
                                resp |-> IF r.err = Nil THEN ToUserResponse(r.user) ELSE NilResponse]
                          ELSE last
               /\ UNCHANGED <<ads, nextAdID, now, inflight>>

Login(login, password, fault, observed) ==
    /\ Running
    /\ \E r \in {LoginResult(login, password, fault)} :
               /\ held' = IF r.err = Nil THEN [token |-> r.token, login |-> login] ELSE held
               /\ last' = IF observed
                          THEN [op |-> "Login", login |-> login, password |-> password,
                                calls |-> r.calls, token |-> r.token, err |-> r.err]
                          ELSE last
               /\ UNCHANGED <<users, nextUserID, ads, nextAdID, now, registered, inflight>>

ParseToken(token, fault) ==
    /\ Running
    /\ \E r \in {ParseTokenResult(token, fault)} :
               /\ last' = [op |-> "ParseToken", token |-> token,
                           calls |-> r.calls, user |-> r.user, err |-> r.err]
               /\ UNCHANGED <<users, nextUserID, ads, nextAdID, now, registered, held, inflight>>

CreateAd(ad, userFault, adFault, observed) ==
    /\ Running
    /\ \E r \in {CreateAdResult(ad, userFault, adFault)} :
               /\ Len(r.rows) <= MaxAds
               /\ ads' = r.rows
               /\ nextAdID' = r.nextID
               /\ last' = IF observed
                          THEN [op |-> "CreateAd", ad |-> ad, calls |-> r.calls,
                                adAfter |-> r.ad, id |-> r.id, err |-> r.err]
                          ELSE last
               /\ UNCHANGED <<users, nextUserID, now, registered, held, inflight>>

ListAds(params, fault) ==
    /\ Running
    /\ \E r \in {ListAdsResult(params, fault)} :
               /\ last' = [op |-> "ListAds", params |-> params, calls |-> r.calls,
                           paramsAfter |-> r.params, ads |-> r.ads, err |-> r.err]
               /\ UNCHANGED <<users, nextUserID, ads, nextAdID, now, registered, held, inflight>>

\* The clock advances.
Tick ==
    /\ Running
    /\ now < MaxTime
    /\ now' = now + 1
    /\ UNCHANGED <<users, nextUserID, ads, nextAdID, registered, held, last, inflight>>

Init ==
    /\ users = <<>>
    /\ nextUserID = 1
    /\ ads = <<>>
    /\ nextAdID = 1
    /\ now = 1
    /\ registered = {}
    /\ held = NoHeld
    /\ last = NoRequest
    /\ inflight = <<>>

----------------------------------------------------------------------------
(* Spec: the authentication flows.  Registrations and logins build the user *)
(* store and the client's token while the clock runs; the observed request  *)
(* is a Register, a Login or a ParseToken.                                  *)

LoginAbx == <<"a", "b", "x">>
LoginZ77 == <<"Z", "7", "7">>
PasswordOne == <<"A", "a", "1", "!", "x", "x", "x", "x">>
PasswordTwo == <<"Z", "b", "2", "*", "x", "x", "x", "x">>

\* Logins and passwords of the flows: two of each that the policy accepts,
\* and some it rejects.
FlowLogins == {LoginAbx, LoginZ77, <<"1", "a", "b">>}
FlowPasswords == {PasswordOne, PasswordTwo, <<"a">>, <<>>}

\* A token the service would issue for user 1, and variations of it in one
\* field at a time: algorithm, signing key, subject, expiry.
BaseToken == [alg |-> "HS256", key |-> Secret, sub |-> FormatInt(1), iat |-> 1, exp |-> MaxTime + 1]
TokenSubjects == {FormatInt(2), FormatInt(7), <<"1", "x">>, <<" ", "2">>, <<"x">>, <<"-", "1">>, <<>>}
TokenInputs ==
    {[BaseToken EXCEPT !.alg = a] : a \in {"HS256", "HS384", "RS256", "none", ""}}
    \cup {[BaseToken EXCEPT !.key = OtherSecret]}
    \cup {[BaseToken EXCEPT !.sub = sub] : sub \in TokenSubjects}
    \cup {[BaseToken EXCEPT !.exp = e] : e \in 1..MaxTime}
    \cup {[BaseToken EXCEPT !.alg = "RS256", !.exp = 1], [BaseToken EXCEPT !.key = OtherSecret, !.exp = 1]}

EarlierRegister ==
    /\ Running
    /\ \E login \in {LoginAbx, LoginZ77}, password \in {PasswordOne, PasswordTwo} :
           Register(login, password, "none", FALSE)

EarlierLogin ==
    /\ Running
    /\ \E login \in {LoginAbx, LoginZ77}, password \in {PasswordOne, PasswordTwo} :
           Login(login, password, "none", FALSE)

ObservedRegister ==
    /\ Running
    /\ \E login \in FlowLogins, password \in FlowPasswords, fault \in StoreFaults :
           Register(login, password, fault, TRUE)

ObservedLogin ==
    /\ Running
    /\ \E login \in FlowLogins, password \in FlowPasswords, fault \in StoreFaults :
           Login(login, password, fault, TRUE)

ObservedParseToken ==
    /\ Running
    /\ \E token \in TokenInputs \cup (IF held = NoHeld THEN {} ELSE {held.token}), fault \in StoreFaults :
           ParseToken(token, fault)

Next ==
    \/ EarlierRegister
    \/ EarlierLogin
    \/ Tick
    \/ ObservedRegister
    \/ ObservedLogin
    \/ ObservedParseToken

Spec == Init /\ [][Next]_vars

----------------------------------------------------------------------------
(* Properties of the authentication flows.                                  *)

\* No store call of the request failed for a reason of the infrastructure.
Answered(calls) ==
    \A i \in 1..Len(calls) :
        ~ErrorsIs(calls[i].err, PgConnError) /\ ~ErrorsIs(calls[i].err, CtxCanceled)

\* The users table holds login with a hash made from another password.
StoredWithOtherPassword(login, password) ==
    \E i \in 1..Len(users) : users[i].Login = login /\ users[i].PasswordHash.of # password

\* C1: For a login of valid format and a non-empty password, Login returns
\* the same error, InvalidCredentials with no token, when the store reports
\* the login as not found as when the user exists and the password does not
\* match the stored hash; it never returns a not-found kind.
C1_LoginHidesAccountExistence ==
    /\ last.op = "Login" =>
          /\ ~ErrorsIs(last.err, SvcErrUserNotFound)
          /\ ~ErrorsIs(last.err, StoErrUserNotFound)
          /\ (last.calls # <<>> /\ last.calls[1].err = StoErrUserNotFound)
                => (last.err = SvcErrInvalidCredentials /\ last.token = EmptyToken)
          /\ (last.calls # <<>> /\ last.calls[1].err = Nil
                /\ StoredWithOtherPassword(last.login, last.password))
                => (last.err = SvcErrInvalidCredentials /\ last.token = EmptyToken)
    /\ \A ghost \in FlowLogins, known \in FlowLogins, password \in FlowPasswords :
          (/\ LoginValidate(ghost, password) = Nil
           /\ LoginValidate(known, password) = Nil
           /\ RowsWithLogin(ghost) = {}
           /\ StoredWithOtherPassword(known, password))
          => /\ LoginResult(ghost, password, "none").err = LoginResult(known, password, "none").err
             /\ LoginResult(ghost, password, "none").token = LoginResult(known, password, "none").token

\* A Login with a wrong password for a stored user was answered with
\* InvalidCredentials while another well-formed login is not in the store.
C1_Witness ==
    /\ last.op = "Login"
    /\ last.calls # <<>>
    /\ last.calls[1].err = Nil
    /\ StoredWithOtherPassword(last.login, last.password)
    /\ last.err = SvcErrInvalidCredentials
    /\ \E ghost \in FlowLogins : validateLogin(ghost) = Nil /\ RowsWithLogin(ghost) = {}

\* The ID that a successful Register returned for login.
RegisteredIDs(login) == {r.id : r \in {x \in registered : x.login = login}}

\* C2: After a successful Register(login, password), a Login with the same
\* login and password succeeds, and the token it returns, like the token
\* returned by Register, is resolved by ParseToken, while unexpired, to the
\* user with the ID the store assigned at registration (infrastructure
\* failures of the store calls aside).
C2_RegisterLoginParseRoundTrip ==
    /\ (last.op = "Register" /\ last.err = Nil) =>
          /\ ParseTokenResult(last.token, "none").err = Nil
          /\ ParseTokenResult(last.token, "none").user.ID = last.user.ID
          /\ LoginResult(last.login, last.password, "none").err = Nil
    /\ (/\ last.op = "Login"
        /\ \E r \in registered : r.login = last.login /\ r.password = last.password
        /\ Answered(last.calls)) =>
          /\ last.err = Nil
          /\ last.token # EmptyToken
          /\ ParseTokenResult(last.token, "none").err = Nil
          /\ ParseTokenResult(last.token, "none").user.ID \in RegisteredIDs(last.login)
    /\ (/\ last.op = "ParseToken"
        /\ held # NoHeld
        /\ last.token = held.token
        /\ now < held.token.iat + TokenTTL
        /\ Answered(last.calls)) =>
          /\ last.err = Nil
          /\ RegisteredIDs(held.login) = {last.user.ID}

\* A token issued earlier was resolved, after the clock had advanced, to the
\* registered user.
C2_Witness ==
    /\ last.op = "ParseToken"
    /\ held # NoHeld
    /\ last.token = held.token
    /\ now > held.token.iat
    /\ last.err = Nil
    /\ RegisteredIDs(held.login) = {last.user.ID}
    /\ Len(users) = MaxUsers

\* C5: When the user store reports a uniqueness conflict on CreateUser,
\* Register returns the 'user exists' error with no token and no user; when
\* the store fails in any other way, Register returns an error that is
\* neither a validation error nor 'user exists', again with no token and no
\* user.
C5_RegisterStoreFailures ==
    (last.op = "Register" /\ last.calls # <<>> /\ last.calls[1].err # Nil) =>
        /\ last.calls[1].fn = "CreateUser"
        /\ last.token = EmptyToken
        /\ last.user = NilUser
        /\ last.err # Nil
        /\ ErrorsIs(last.calls[1].err, StoErrUserExists) =>
              /\ ErrorsIs(last.err, SvcErrUserExists)
              /\ ~ErrorsIs(last.err, SvcErrInvalidInput)
        /\ ~ErrorsIs(last.calls[1].err, StoErrUserExists) =>
              /\ ~ErrorsIs(last.err, SvcErrUserExists)
              /\ ~ErrorsIs(last.err, SvcErrInvalidInput)

\* A Register for a login already in the store was answered 'user exists'.
C5_Witness ==
    /\ last.op = "Register"
    /\ last.calls # <<>>
    /\ last.calls[1].err = StoErrUserExists
    /\ last.err = SvcErrUserExists
    /\ RowsWithLogin(last.login) # {}

\* The value carries a password hash.
CarriesHash(v) == "PasswordHash" \in DOMAIN v /\ v.PasswordHash.alg # "none"

C7_ParseTokenAccepts ==
    /\ held # NoHeld => held.token.exp = held.token.iat + TokenTTL
    /\ last.op = "ParseToken" =>
          /\ last.err = Nil =>
                /\ last.token.alg \in {"HS256", "HS384", "HS512"}
                /\ last.token.key = Secret
                /\ now < last.token.exp
                /\ last.token.sub # <<>>
                /\ \E i \in 1..Len(users) : users[i] = last.user
                /\ \E k \in 1..Len(last.token.sub) :
                      \E j \in 0..(k - 1) :
                          /\ \A m \in 1..j : last.token.sub[m] = " "
                          /\ SubSeq(last.token.sub, j + 1, k) \in {FormatInt(last.user.ID), <<"+">> \o FormatInt(last.user.ID)}
          /\ last.err # Nil => last.user = NilUser
          /\ (\/ last.token.alg \notin {"HS256", "HS384", "HS512"}
              \/ last.token.key # Secret
              \/ now >= last.token.exp) =>
                (last.err # Nil /\ last.calls = <<>>)
          /\ (last.calls # <<>> /\ last.calls[1].err = StoErrUserNotFound) =>
                /\ ErrorsIs(last.err, SvcErrUserNotFound)
                /\ \A i \in 1..Len(users) : FormatInt(users[i].ID) # last.token.sub

\* A validly signed, unexpired token naming a user that is not in the store
\* was answered with user-not-found.
C7_Witness ==
    /\ last.op = "ParseToken"
    /\ last.token.alg = "HS256"
    /\ last.token.key = Secret
    /\ now < last.token.exp
    /\ last.calls # <<>>
    /\ last.calls[1].err = StoErrUserNotFound
    /\ last.err = SvcErrUserNotFound
    /\ users # <<>>

----------------------------------------------------------------------------
(* The credential policy over a wide range of logins and passwords: each   *)
(* behaviour is one request against the empty store.                        *)

MaxLoginPrefix == 2
MaxPasswordPrefix == 4

\* All strings of at most n characters of the set chars.
RECURSIVE StringsUpTo(_, _)
StringsUpTo(chars, n) ==
    IF n = 0 THEN {<<>>}
    ELSE LET shorter == StringsUpTo(chars, n - 1)
         IN  shorter \cup {Append(t, c) : t \in shorter, c \in chars}

LoginChars == {"a", "Z", "1", "_", "-", "U+00E9", "U+05D0"}
\* The paddings of a login: a character and how many times it is repeated.
LoginPads ==
    ({"b"} \X {0, 1, 2, 3, LoginMaxLen - 3, LoginMaxLen - 2, LoginMaxLen - 1, LoginMaxLen, LoginMaxLen + 1})
    \cup ({"7"} \X {3, LoginMaxLen - 1})
    \cup ({"U+00E9"} \X {1, 24, 25})

PolicyLogins ==
    {Pad(prefix, pad[1], pad[2]) : prefix \in StringsUpTo(LoginChars, MaxLoginPrefix),
                                   pad \in LoginPads}

PasswordChars == {"A", "a", "1", "!", "U+00E9", "U+00B2"}
\* The paddings of a password.
PasswordPads ==
    ({"-"} \X {0, 3, 4, PasswordMaxLen - 4, PasswordMaxLen - 3})
    \cup ({"U+00E9"} \X {3, 34, 35})

PolicyPasswords ==
    {Pad(prefix, pad[1], pad[2]) : prefix \in StringsUpTo(PasswordChars, MaxPasswordPrefix),
                                   pad \in PasswordPads}

PolicyRegisterLogin ==
    /\ Running
    /\ \E login \in PolicyLogins, password \in {PasswordOne, <<"a">>} :
           Register(login, password, "none", TRUE)

PolicyRegisterPassword ==
    /\ Running
    /\ \E password \in PolicyPasswords :
           Register(LoginAbx, password, "none", TRUE)

PolicyLogin ==
    /\ Running
    /\ \E login \in PolicyLogins, password \in {PasswordOne, <<>>} :
           Login(login, password, "none", TRUE)

NextPolicy ==
    \/ PolicyRegisterLogin
    \/ PolicyRegisterPassword
    \/ PolicyLogin

SpecPolicy == Init /\ [][NextPolicy]_vars

----------------------------------------------------------------------------
(* Properties of the credential policy.                                     *)

\* unicode.IsLetter on a character of the model's alphabet.
IsLetter(c) == c \in AsciiLower \cup AsciiUpper \cup {"U+00E9", "U+00C9", "U+05D0"}

\* The text of a policy message is part of the error's message.
Carries(err, policy) == \E i \in 1..Len(err.msg) : <<err.msg[i]>> = policy.msg

\* C4: Register checks the login and then the password before anything
\* else: whenever either check fails it returns a validation error
\* (ErrInvalidInput) carrying the message of the check that failed first,
\* with no token and no user, and CreateUser is never called.
C4_RegisterValidatesFirst ==
    (/\ last.op = "Register"
     /\ (validateLogin(last.login) # Nil \/ validatePassword(last.password) # Nil)) =>
        /\ ErrorsIs(last.err, SvcErrInvalidInput)
        /\ last.err.msg = SvcErrInvalidInput.msg \o
              (IF validateLogin(last.login) # Nil THEN ErrInvalidLogin.msg ELSE ErrInvalidPassword.msg)
        /\ last.calls = <<>>
        /\ last.token = EmptyToken
        /\ last.user = NilUser
        /\ users = <<>>

\* A Register with a good login and a password lacking a special character
\* was refused with the password message.
C4_Witness ==
    /\ last.op = "Register"
    /\ validateLogin(last.login) = Nil
    /\ Len(last.password) >= PasswordMinLen
    /\ \A i \in 1..Len(last.password) : ~isSpecialCharacter(last.password[i])
    /\ Carries(last.err, ErrInvalidPassword)
    /\ last.calls = <<>>

\* The login as the policy is stated: 3 to 50 long, first character a
\* letter, every character one of [A-Za-z0-9_].
LoginWellFormed(login) ==
    /\ Len(login) >= 3
    /\ Len(login) <= 50
    /\ IsLetter(login[1])
    /\ \A i \in 1..Len(login) :
          login[i] \in AsciiLower \cup AsciiUpper \cup AsciiDigit \cup {"_"}

\* C8: validateLogin accepts a login exactly when its length is between 3
\* and 50, its first character is a letter and every character is one of
\* [A-Za-z0-9_]; for every other login Register and Login fail with a
\* validation error carrying the login message, without any store call.
C8_ValidateLoginExact ==
    last.op \in {"Register", "Login"} =>
        /\ (validateLogin(last.login) = Nil) <=> LoginWellFormed(last.login)
        /\ ~LoginWellFormed(last.login) =>
              /\ last.err = ErrorfWV(SvcErrInvalidInput, ErrInvalidLogin)
              /\ ErrorsIs(last.err, SvcErrInvalidInput)
              /\ last.calls = <<>>
        /\ LoginWellFormed(last.login) => ~Carries(last.err, ErrInvalidLogin)

\* A Login whose login is 50 long but starts with a digit was refused.
C8_Witness ==
    /\ last.op = "Login"
    /\ Len(last.login) = LoginMaxLen
    /\ last.login[1] \in AsciiDigit
    /\ \A i \in 1..Len(last.login) : InLoginClass(last.login[i])
    /\ last.err = ErrorfWV(SvcErrInvalidInput, ErrInvalidLogin)

\* The password as the policy is stated: 8 to 72 characters, with an
\* upper-case letter, a lower-case letter, a digit and one of !@#$%^&*.
PasswordWellFormed(password) ==
    /\ Len(password) >= 8
    /\ Len(password) <= 72
    /\ \E i \in 1..Len(password) : IsUpper(password[i])
    /\ \E i \in 1..Len(password) : IsLower(password[i])
    /\ \E i \in 1..Len(password) : password[i] \in AsciiDigit
    /\ \E i \in 1..Len(password) : password[i] \in {"!", "@", "#", "$", "%", "^", "&", "*"}

\* C9 (as stated): validatePassword accepts a password exactly when its
\* length is between 8 and 72 and it contains an upper-case letter, a
\* lower-case letter, a digit and a character of !@#$%^&*, whatever the
\* order and whatever other characters are present.
C9_ValidatePasswordExact ==
    (last.op = "Register" /\ validateLogin(last.login) = Nil) =>
        /\ (validatePassword(last.password) = Nil) <=> PasswordWellFormed(last.password)
        /\ ~PasswordWellFormed(last.password) => Carries(last.err, ErrInvalidPassword)

\* A password of seven characters was accepted and its user created.
C9_Witness ==
    /\ last.op = "Register"
    /\ Len(last.password) = PasswordMinLen - 1
    /\ last.err = Nil
    /\ users # <<>>

----------------------------------------------------------------------------
(* The ad service: registrations and ads build up the stores, then one      *)
(* CreateAd or ListAds request is observed.                                 *)

\* A decoded ad as the transport layer hands it to the service.
NewAd(title, text, userID, price) ==
    [ID |-> 0, UserID |-> userID, Title |-> title, Text |-> text, ImageURL |-> <<>>,
     Price |-> price, AuthorLogin |-> <<>>, CreatedAt |-> ZeroTime]

Query(sortBy, order, page, limit, minPrice, maxPrice) ==
    [SortBy |-> sortBy, Order |-> order, Page |-> page, Limit |-> limit,
     MinPrice |-> minPrice, MaxPrice |-> maxPrice]

AdTitles ==
    {<<>>, <<"T">>, Pad(<<>>, "a", TitleMaxLen), Pad(<<>>, "a", TitleMaxLen + 1),
     Pad(<<>>, "U+00E9", TitleMaxLen + 1)}

CreateAdInputs ==
    {NewAd(title, text, userID, price) :
        title \in AdTitles, text \in {<<>>, <<"x">>}, userID \in 0..MaxUsers, price \in {-5, 0, 5}}
    \cup {[NewAd(<<"T">>, <<"x">>, userID, 5) EXCEPT !.AuthorLogin = login, !.ImageURL = image] :
            userID \in 1..MaxUsers, login \in {LoginAbx, LoginZ77, <<"m">>}, image \in {<<>>, <<"i">>}}

\* The faults of the two store calls of one CreateAd request.
CreateAdFaults ==
    {<<"none", "none">>, <<"conn", "none">>, <<"canceled", "none">>,
     <<"none", "fk">>, <<"none", "unique">>, <<"none", "conn">>}

BaseQuery == Query("", "", 0, 0, NilPrice, NilPrice)

ListAdsInputs ==
    {Query(sortBy, order, page, limit, minPrice, maxPrice) :
        sortBy \in {"", "price"}, order \in {"", "asc"}, page \in {0, 1, 2},
        limit \in {0, 1, MaxLimit}, minPrice \in {NilPrice, PriceOf(0), PriceOf(5)},
        maxPrice \in {NilPrice, PriceOf(5)}}
    \cup {[BaseQuery EXCEPT !.SortBy = v] : v \in {"created_at", "name", "PRICE"}}
    \cup {[BaseQuery EXCEPT !.Order = v] : v \in {"desc", "down", "ASC"}}
    \cup {[BaseQuery EXCEPT !.Page = v] : v \in {-1, 3, MaxInt, MinInt}}
    \cup {[BaseQuery EXCEPT !.Limit = v] : v \in {-1, 10, MaxLimit + 1, MaxInt}}
    \cup {[BaseQuery EXCEPT !.MinPrice = PriceOf(v)] : v \in {-1, 500}}
    \cup {[BaseQuery EXCEPT !.MaxPrice = PriceOf(v)] : v \in {-1, 0, 100}}
    \cup {[BaseQuery EXCEPT !.MinPrice = PriceOf(500), !.MaxPrice = PriceOf(100)],
          [BaseQuery EXCEPT !.MinPrice = PriceOf(100), !.MaxPrice = PriceOf(500)],
          [BaseQuery EXCEPT !.MinPrice = PriceOf(5), !.MaxPrice = PriceOf(0)],
          [BaseQuery EXCEPT !.Page = 3, !.Limit = 10],
          [BaseQuery EXCEPT !.SortBy = "name", !.Order = "down"],
          [BaseQuery EXCEPT !.Order = "down", !.Limit = MaxLimit + 1],
          [BaseQuery EXCEPT !.Page = MaxInt, !.Limit = MaxLimit],
          [BaseQuery EXCEPT !.SortBy = "name", !.Limit = -1],
          [BaseQuery EXCEPT !.Order = "down", !.Page = -1, !.Limit = MaxLimit + 1],
          [BaseQuery EXCEPT !.Page = -1, !.Limit = -1],
          [BaseQuery EXCEPT !.Limit = -1, !.MinPrice = PriceOf(-1)],
          [BaseQuery EXCEPT !.Limit = MaxLimit + 1, !.MaxPrice = PriceOf(-1)],
          [BaseQuery EXCEPT !.MinPrice = PriceOf(-1), !.MaxPrice = PriceOf(-2)],
          [BaseQuery EXCEPT !.MinPrice = PriceOf(5), !.MaxPrice = PriceOf(-1)],
          Query("name", "down", -1, MaxLimit + 1, PriceOf(-1), PriceOf(-2)),
          NilParams}

AdsEarlierRegister ==
    /\ Running
    /\ \E login \in {LoginAbx, LoginZ77} :
           Register(login, PasswordOne, "none", FALSE)

AdsEarlierCreateAd ==
    /\ Running
    /\ \E userID \in 1..MaxUsers, price \in {0, 5} :
           CreateAd(NewAd(<<"T">>, <<"x">>, userID, price), "none", "none", FALSE)

ObservedCreateAd ==
    /\ Running
    /\ \E ad \in CreateAdInputs, faults \in CreateAdFaults :
           CreateAd(ad, faults[1], faults[2], TRUE)

ObservedListAds ==
    /\ Running
    /\ \E params \in ListAdsInputs, fault \in StoreFaults :
           ListAds(params, fault)

NextAds ==
    \/ AdsEarlierRegister
    \/ AdsEarlierCreateAd
    \/ ObservedCreateAd
    \/ ObservedListAds

SpecAds == Init /\ [][NextAds]_vars

----------------------------------------------------------------------------
(* Properties of the ad service.                                            *)

\* The query is normalized.
Normalized(q) ==
    /\ q # NilParams
    /\ q.SortBy \in {"price", "created_at"}
    /\ q.Order \in {"asc", "desc"}
    /\ q.Page >= 1
    /\ q.Limit >= 1
    /\ q.Limit <= 100
    /\ ~q.MinPrice.nil => q.MinPrice.v >= 0
    /\ ~q.MaxPrice.nil => q.MaxPrice.v >= 0
    /\ (~q.MinPrice.nil /\ ~q.MaxPrice.nil) => q.MinPrice.v <= q.MaxPrice.v

\* C3: Every query the ad service passes to the ad store's ListAds is
\* normalized: sort key 'price' or 'created_at', order 'asc' or 'desc',
\* page >= 1, 1 <= limit <= 100, each present price bound >= 0 and
\* min <= max when both are present, whatever the input of the request.
C3_StoreSeesNormalizedQuery ==
    last.op = "ListAds" =>
        /\ Len(last.calls) <= 1
        /\ \A i \in 1..Len(last.calls) :
              /\ last.calls[i].fn = "ListAds"
              /\ Normalized(last.calls[i].arg)
        /\ (last.params = NilParams \/ ~Normalized(SetDefaults(last.params))) => last.calls = <<>>

\* A request that left sort key, order, page and limit unset reached the
\* store with the defaults filled in.
C3_Witness ==
    /\ last.op = "ListAds"
    /\ last.params = BaseQuery
    /\ last.calls # <<>>
    /\ last.calls[1].arg = Query("created_at", "desc", 1, 10, NilPrice, NilPrice)
    /\ last.err = Nil

\* The reasons of the rules of validateAd that the ad violates.
ViolatedRules(ad) ==
    (IF ad.Title = <<>> THEN {"title is required"} ELSE {})
    \cup (IF Len(ad.Title) > 120 THEN {"title is too long"} ELSE {})
    \cup (IF ad.Text = <<>> THEN {"text cannot be empty"} ELSE {})
    \cup (IF ad.UserID = 0 THEN {"user ID is required"} ELSE {})
    \cup (IF ad.Price < 0 THEN {"price must be non-negative"} ELSE {})

C11_UnknownAuthorIsInvalidInput ==
    /\ (/\ last.op = "CreateAd"
        /\ ViolatedRules(last.ad) = {}
        /\ last.calls # <<>>
        /\ ErrorsIs(last.calls[1].err, StoErrUserNotFound)) =>
          /\ last.err = ErrorfWText(SvcErrInvalidInput, "user not found")
          /\ ErrorsIs(last.err, SvcErrInvalidInput)
          /\ ~ErrorsIs(last.err, SvcErrUserNotFound)
          /\ ~ErrorsIs(last.err, StoErrUserNotFound)
          /\ last.id = 0
          /\ Len(last.calls) = 1
          /\ last.calls[1].fn = "FindUserByID"
          /\ RowsWithID(last.ad.UserID) = {}
          /\ \A i \in 1..Len(ads) : ads[i].Title # last.ad.Title \/ ads[i].UserID # last.ad.UserID
    /\ \A i \in 1..Len(ads) : RowsWithID(ads[i].UserID) # {}

\* A field-valid ad for user 2 was refused while only user 1 is registered
\* and has an ad.
C11_Witness ==
    /\ last.op = "CreateAd"
    /\ last.ad.UserID = 2
    /\ ViolatedRules(last.ad) = {}
    /\ RowsWithID(1) # {}
    /\ RowsWithID(2) = {}
    /\ ads # <<>>
    /\ last.calls = <<Call("FindUserByID", 2, StoErrUserNotFound)>>
    /\ last.err = ErrorfWText(SvcErrInvalidInput, "user not found")

\* C12: ListAds rejects with a validation error every query whose
\* non-empty sort key is not exactly 'price' or 'created_at' and every query
\* whose non-empty order is not exactly 'asc' or 'desc'; the value is not
\* replaced by a default and the ad store is not called.
C12_SortWhitelist ==
    (/\ last.op = "ListAds"
     /\ last.params # NilParams
     /\ \/ last.params.SortBy \notin {"", "price", "created_at"}
        \/ last.params.Order \notin {"", "asc", "desc"}) =>
        /\ ErrorsIs(last.err, SvcErrInvalidInput)
        /\ Len(last.err.msg) = 2
        /\ last.err.msg[2] =
              (IF last.params.SortBy \notin {"", "price", "created_at"}
               THEN "invalid sort_by parameter: must be 'price' or 'created_at'"
               ELSE "invalid order parameter: must be 'asc' or 'desc'")
        /\ last.calls = <<>>
        /\ last.paramsAfter = last.params
        /\ last.ads = <<>>

\* ListAds({sortBy: "name"}) was refused, with ads in the store.
C12_Witness ==
    /\ last.op = "ListAds"
    /\ last.params = [BaseQuery EXCEPT !.SortBy = "name"]
    /\ ads # <<>>
    /\ ErrorsIs(last.err, SvcErrInvalidInput)
    /\ last.paramsAfter.SortBy = "name"
    /\ last.calls = <<>>

\* C13: For a query that passes validation, ListAds fills only the
\* unspecified parameters before calling the store: an empty sort key
\* becomes 'created_at', an empty order 'desc', page 0 becomes 1 and limit 0
\* becomes 10; every parameter given with a valid value, and both price
\* bounds, reach the store unchanged.
C13_DefaultsFillOnlyUnspecified ==
    (last.op = "ListAds" /\ last.calls # <<>>) =>
        /\ last.calls[1].fn = "ListAds"
        /\ last.calls[1].arg.SortBy =
              (IF last.params.SortBy = "" THEN "created_at" ELSE last.params.SortBy)
        /\ last.calls[1].arg.Order =
              (IF last.params.Order = "" THEN "desc" ELSE last.params.Order)
        /\ last.calls[1].arg.Page = (IF last.params.Page = 0 THEN 1 ELSE last.params.Page)
        /\ last.calls[1].arg.Limit = (IF last.params.Limit = 0 THEN 10 ELSE last.params.Limit)
        /\ last.calls[1].arg.MinPrice = last.params.MinPrice
        /\ last.calls[1].arg.MaxPrice = last.params.MaxPrice
        /\ last.paramsAfter = last.calls[1].arg

\* A query giving the sort key, the page and the lower price bound reached
\* the store with the order and the limit filled in and the rest as given.
C13_Witness ==
    /\ last.op = "ListAds"
    /\ last.params = Query("price", "", 2, 0, PriceOf(5), NilPrice)
    /\ last.calls # <<>>
    /\ last.calls[1].arg = Query("price", "desc", 2, 10, PriceOf(5), NilPrice)
    /\ ads # <<>>

\* C14 (as stated): for every query that passes validation, the offset the
\* store uses is (page - 1) * limit on the normalized page and limit, and 0
\* whenever page <= 1; page 1 gives 0 and page 3 with limit 10 gives 20.
C14_OffsetIsPageTimesLimit ==
    (last.op = "ListAds" /\ last.calls # <<>>) =>
        GetOffset(last.calls[1].arg) =
            (IF last.calls[1].arg.Page <= 1 THEN 0
             ELSE (last.calls[1].arg.Page - 1) * last.calls[1].arg.Limit)

\* The largest page with limit 100 passed validation, the store was handed
\* a negative offset and the request failed with an internal error.
C14_Witness ==
    /\ last.op = "ListAds"
    /\ last.params = [BaseQuery EXCEPT !.Page = MaxInt, !.Limit = MaxLimit]
    /\ last.calls # <<>>
    /\ GetOffset(last.calls[1].arg) = -200
    /\ last.err # Nil
    /\ ~ErrorsIs(last.err, SvcErrInvalidInput)

\* The sort key, the order and the price bounds of the query are valid.
OtherFieldsValid(q) ==
    /\ q.SortBy \in {"", "price", "created_at"}
    /\ q.Order \in {"", "asc", "desc"}
    /\ q.MinPrice.nil \/ q.MinPrice.v >= 0
    /\ q.MaxPrice.nil \/ q.MaxPrice.v >= 0
    /\ q.MinPrice.nil \/ q.MaxPrice.nil \/ q.MinPrice.v <= q.MaxPrice.v

\* C15: ListAds accepts a specified (non-zero) limit exactly when it lies in
\* [1, 100] and a specified page exactly when it is >= 1: limit 100 is
\* accepted, limit 101 is rejected, a negative page or a negative limit is
\* rejected, each with a validation error and without a store call.
C15_PageAndLimitRange ==
    (/\ last.op = "ListAds"
     /\ last.params # NilParams
     /\ last.params.SortBy \in {"", "price", "created_at"}
     /\ last.params.Order \in {"", "asc", "desc"}) =>
        /\ (last.params.Page < 0 \/ last.params.Limit < 0 \/ last.params.Limit > 100) =>
              /\ ErrorsIs(last.err, SvcErrInvalidInput)
              /\ Len(last.err.msg) = 2
              /\ last.err.msg[2] =
                    (IF last.params.Page < 0 THEN "page must be positive"
                     ELSE IF last.params.Limit < 0 THEN "limit must be positive"
                     ELSE "limit cannot exceed 100")
              /\ last.calls = <<>>
        /\ (/\ OtherFieldsValid(last.params)
            /\ last.params.Page >= 0
            /\ last.params.Limit >= 0
            /\ last.params.Limit <= 100) =>
              /\ ~ErrorsIs(last.err, SvcErrInvalidInput)
              /\ Len(last.calls) = 1

\* A query with limit 101 was refused, and the store holds ads.
C15_Witness ==
    /\ last.op = "ListAds"
    /\ last.params = [BaseQuery EXCEPT !.Limit = 101]
    /\ last.err = ErrorfWV(SvcErrInvalidInput, NewError("limit cannot exceed 100"))
    /\ last.calls = <<>>
    /\ ads # <<>>

\* C16: ListAds rejects the whole query with a validation error when a
\* present minPrice is negative, when a present maxPrice is negative, or
\* when both are present and minPrice > maxPrice (500/100); it accepts any
\* pair with 0 <= minPrice <= maxPrice, minPrice = maxPrice included, and
\* any single non-negative bound (100/500 is accepted).
C16_PriceRange ==
    (/\ last.op = "ListAds"
     /\ last.params # NilParams
     /\ last.params.SortBy \in {"", "price", "created_at"}
     /\ last.params.Order \in {"", "asc", "desc"}
     /\ last.params.Page >= 0
     /\ last.params.Limit >= 0
     /\ last.params.Limit <= 100) =>
        IF \/ ~last.params.MinPrice.nil /\ last.params.MinPrice.v < 0
           \/ ~last.params.MaxPrice.nil /\ last.params.MaxPrice.v < 0
           \/ /\ ~last.params.MinPrice.nil
              /\ ~last.params.MaxPrice.nil
              /\ last.params.MinPrice.v > last.params.MaxPrice.v
        THEN /\ ErrorsIs(last.err, SvcErrInvalidInput)
             /\ Len(last.err.msg) = 2
             /\ last.err.msg[2] \in {"min_price must be non-negative",
                                     "max_price must be non-negative",
                                     "min_price cannot be greater than max_price"}
             /\ last.calls = <<>>
             /\ last.ads = <<>>
        ELSE /\ ~ErrorsIs(last.err, SvcErrInvalidInput)
             /\ Len(last.calls) = 1
             /\ last.calls[1].arg.MinPrice = last.params.MinPrice
             /\ last.calls[1].arg.MaxPrice = last.params.MaxPrice

\* The query with minPrice 500 and maxPrice 100 was refused.
C16_Witness ==
    /\ last.op = "ListAds"
    /\ last.params = [BaseQuery EXCEPT !.MinPrice = PriceOf(500), !.MaxPrice = PriceOf(100)]
    /\ last.err = ErrorfWV(SvcErrInvalidInput, NewError("min_price cannot be greater than max_price"))
    /\ last.calls = <<>>
    /\ ads # <<>>

\* The query with minPrice = maxPrice = 5 was accepted and answered.
C16_WitnessEqualBounds ==
    /\ last.op = "ListAds"
    /\ last.params # NilParams
    /\ last.params.MinPrice = PriceOf(5)
    /\ last.params.MaxPrice = PriceOf(5)
    /\ last.err = Nil
    /\ last.ads # <<>>

\* C17: Validation and defaulting of a listing query is idempotent and
\* deterministic: the normalized output of an accepted query is accepted
\* again and normalizes to itself, and the same input query gives the same
\* validation outcome and the same normalized query whatever the store does.
C17_NormalizationIdempotent ==
    last.op = "ListAds" =>
        /\ last.calls # <<>> =>
              /\ validateListParams(last.paramsAfter) = Nil
              /\ SetDefaults(last.paramsAfter) = last.paramsAfter
              /\ \A fault \in StoreFaults :
                    /\ ListAdsResult(last.paramsAfter, fault).calls # <<>>
                    /\ ListAdsResult(last.paramsAfter, fault).calls[1].arg = last.calls[1].arg
                    /\ ListAdsResult(last.paramsAfter, fault).params = last.paramsAfter
        /\ \A fault \in StoreFaults :
              /\ ListAdsResult(last.params, fault).params = last.paramsAfter
              /\ (ListAdsResult(last.params, fault).calls = <<>>) <=> (last.calls = <<>>)
              /\ ErrorsIs(ListAdsResult(last.params, fault).err, SvcErrInvalidInput)
                    <=> ErrorsIs(last.err, SvcErrInvalidInput)

\* A query with nothing specified was accepted and normalized to a query
\* different from the input.
C17_Witness ==
    /\ last.op = "ListAds"
    /\ last.params = BaseQuery
    /\ last.calls # <<>>
    /\ last.paramsAfter # last.params
    /\ last.paramsAfter.Limit = DefaultLimit
    /\ validateListParams(last.paramsAfter) = Nil


----------------------------------------------------------------------------
(* Transport layer: the authentication middleware, the ads handlers and the *)
(* mapping of service errors to responses.  A response is its status code,  *)
(* the pieces of its error message, and the payload of a success.           *)

\* internal/services/errors.go
SvcErrUnauthorized == Sentinel("services.ErrUnauthorized", "unauthorized")
SvcErrForbidden == Sentinel("services.ErrForbidden", "forbidden")
SvcErrAdNotFound == Sentinel("services.ErrAdNotFound", "ad not found")

StatusOK == 200
StatusCreated == 201
StatusBadRequest == 400
StatusUnauthorized == 401
StatusForbidden == 403
StatusNotFound == 404
StatusConflict == 409
StatusInternalServerError == 500

Response(status, error, id, list) == [status |-> status, error |-> error, id |-> id, ads |-> list]

\* respondWithError(w, status, message): {"error": message}.
respondWithError(status, message) == Response(status, message, 0, <<>>)

\* http.Error(w, text, code)
httpError(text, code) == Response(code, <<text>>, 0, <<>>)

\* Mutant: an error of no known kind is answered with its own text.
handleServiceErrorEchoingUnknown(err) ==
    IF ErrorsIs(err, SvcErrInvalidInput) THEN respondWithError(StatusBadRequest, err.msg)
    ELSE IF ErrorsIs(err, SvcErrConflict) THEN respondWithError(StatusConflict, err.msg)
    ELSE IF ErrorsIs(err, SvcErrAdNotFound) THEN respondWithError(StatusNotFound, <<"ad not found">>)
    ELSE IF ErrorsIs(err, SvcErrUserNotFound) THEN respondWithError(StatusNotFound, <<"user not found">>)
    ELSE IF ErrorsIs(err, SvcErrUnauthorized) THEN respondWithError(StatusUnauthorized, <<"unauthorized">>)
    ELSE IF ErrorsIs(err, SvcErrForbidden) THEN respondWithError(StatusForbidden, <<"forbidden">>)
    ELSE respondWithError(StatusInternalServerError, err.msg)

\* The switch takes the first case whose sentinel errors.Is finds in the chain.
handleServiceError(err) ==
    IF ErrorsIs(err, SvcErrInvalidInput) THEN respondWithError(StatusBadRequest, err.msg)
    ELSE IF ErrorsIs(err, SvcErrConflict) THEN respondWithError(StatusConflict, err.msg)
    ELSE IF ErrorsIs(err, SvcErrAdNotFound) THEN respondWithError(StatusNotFound, <<"ad not found">>)
    ELSE IF ErrorsIs(err, SvcErrUserNotFound) THEN respondWithError(StatusNotFound, <<"user not found">>)
    ELSE IF ErrorsIs(err, SvcErrUnauthorized) THEN respondWithError(StatusUnauthorized, <<"unauthorized">>)
    ELSE IF ErrorsIs(err, SvcErrForbidden) THEN respondWithError(StatusForbidden, <<"forbidden">>)
    ELSE respondWithError(StatusInternalServerError, <<"internal server error">>)

\* The Authorization header as strings.Split(header, " ") sees it: a sequence
\* of parts.  A part is its text and the token that text decodes to; a part
\* that is no token decodes to the malformed token.  The empty sequence is
\* the absent (empty) header.
Word(text) == [text |-> text, token |-> EmptyToken]
TokenString(token) == [text |-> "<jwt>", token |-> token]
NoHeader == <<>>

\* The request context: whether it holds a value under UserIDKey, and the value.
NoUser == [ok |-> FALSE, userID |-> 0]
WithUserID(id) == [ok |-> TRUE, userID |-> id]

\* What a middleware did: whether it called the next handler and with which
\* context, the response it wrote itself otherwise, the ParseToken calls it
\* made with their results, and their store calls.
MiddlewareNext(ctx, parses, calls) ==
    [next |-> TRUE, ctx |-> ctx, resp |-> Response(0, <<>>, 0, <<>>), parses |-> parses, calls |-> calls]
MiddlewareStop(resp, parses, calls) ==
    [next |-> FALSE, ctx |-> NoUser, resp |-> resp, parses |-> parses, calls |-> calls]

ParseCall(token, p) == [token |-> token, user |-> p.user, err |-> p.err]

AuthOptionalCtx(header, fault) ==
    IF header = NoHeader THEN MiddlewareNext(NoUser, <<>>, <<>>)
    ELSE IF Len(header) # 2 \/ header[1].text # "Bearer" THEN MiddlewareNext(NoUser, <<>>, <<>>)
    ELSE LET p == ParseTokenResult(header[2].token, fault)
             parses == <<ParseCall(header[2].token, p)>>
         IN  IF p.err # Nil THEN MiddlewareNext(NoUser, parses, p.calls)
             ELSE MiddlewareNext(WithUserID(p.user.ID), parses, p.calls)

AuthCtx(header, fault) ==
    IF header = NoHeader THEN MiddlewareNext(NoUser, <<>>, <<>>)
    ELSE IF Len(header) # 2 \/ header[1].text # "Bearer"
    THEN MiddlewareStop(httpError("invalid auth header", StatusUnauthorized), <<>>, <<>>)
    ELSE LET p == ParseTokenResult(header[2].token, fault)
             parses == <<ParseCall(header[2].token, p)>>
         IN  IF p.err # Nil
             THEN MiddlewareStop(httpError("invalid token", StatusUnauthorized), parses, p.calls)
             ELSE MiddlewareNext(WithUserID(p.user.ID), parses, p.calls)

\* strconv.ParseInt(s, 10, bits) and strconv.Atoi(s): an optional sign and
\* then decimal digits only; a value outside the integer range is an error.
ParseInt(s) ==
    LET signed == s # <<>> /\ Head(s) \in {"+", "-"}
        body == IF signed THEN Tail(s) ELSE s
        d == ScanDigits(body, 0, 0)
        value == IF signed /\ Head(s) = "-" THEN 0 - d.value ELSE d.value
    IN  IF body = <<>> \/ d.n # Len(body)
        THEN [value |-> 0, err |-> Sentinel("strconv.ErrSyntax", "invalid syntax")]
        ELSE IF value > MaxInt \/ value < MinInt
        THEN [value |-> 0, err |-> Sentinel("strconv.ErrRange", "value out of range")]
        ELSE [value |-> value, err |-> Nil]

\* The query string of GET /ads: each parameter's text, empty when absent.
RawQuery(sortBy, order, page, limit, minPrice, maxPrice) ==
    [sort_by |-> sortBy, order |-> order, page |-> page, limit |-> limit,
     min_price |-> minPrice, max_price |-> maxPrice]

\* Mutant: the handler keeps one query object and fills it in again for
\* each request, so what the request before left in it shows through.
parseListAdsParamsIntoSharedObject(query) ==
    LET page == ParseInt(query.page)
        limit == ParseInt(query.limit)
        minPrice == ParseInt(query.min_price)
        maxPrice == ParseInt(query.max_price)
        before == {i \in 1..Len(inflight) : inflight[i].op = "GET /v1/ads" /\ inflight[i].given # NilParams}
        shared == IF before = {}
                  THEN Query("", "", 0, 0, NilPrice, NilPrice)
                  ELSE inflight[CHOOSE i \in before : \A j \in before : j <= i].after
    IN  IF query.page # <<>> /\ page.err # Nil
        THEN [params |-> NilParams, err |-> NewError("invalid page parameter: must be a number")]
        ELSE IF query.limit # <<>> /\ limit.err # Nil
        THEN [params |-> NilParams, err |-> NewError("invalid limit parameter: must be a number")]
        ELSE IF query.min_price # <<>> /\ minPrice.err # Nil
        THEN [params |-> NilParams, err |-> NewError("invalid min_price parameter: must be a number")]
        ELSE IF query.max_price # <<>> /\ maxPrice.err # Nil
        THEN [params |-> NilParams, err |-> NewError("invalid max_price parameter: must be a number")]
        ELSE [params |-> Query(query.sort_by, query.order,
                               IF query.page # <<>> THEN page.value ELSE shared.Page,
                               IF query.limit # <<>> THEN limit.value ELSE shared.Limit,
                               IF query.min_price # <<>> THEN PriceOf(minPrice.value) ELSE shared.MinPrice,
                               IF query.max_price # <<>> THEN PriceOf(maxPrice.value) ELSE shared.MaxPrice),
              err |-> Nil]

parseListAdsParams(query) ==
    LET page == ParseInt(query.page)
        limit == ParseInt(query.limit)
        minPrice == ParseInt(query.min_price)
        maxPrice == ParseInt(query.max_price)
    IN  IF query.page # <<>> /\ page.err # Nil
        THEN [params |-> NilParams, err |-> NewError("invalid page parameter: must be a number")]
        ELSE IF query.limit # <<>> /\ limit.err # Nil
        THEN [params |-> NilParams, err |-> NewError("invalid limit parameter: must be a number")]
        ELSE IF query.min_price # <<>> /\ minPrice.err # Nil
        THEN [params |-> NilParams, err |-> NewError("invalid min_price parameter: must be a number")]
        ELSE IF query.max_price # <<>> /\ maxPrice.err # Nil
        THEN [params |-> NilParams, err |-> NewError("invalid max_price parameter: must be a number")]
        ELSE [params |-> Query(query.sort_by, query.order,
                               IF query.page # <<>> THEN page.value ELSE 0,
                               IF query.limit # <<>> THEN limit.value ELSE 0,
                               IF query.min_price # <<>> THEN PriceOf(minPrice.value) ELSE NilPrice,
                               IF query.max_price # <<>> THEN PriceOf(maxPrice.value) ELSE NilPrice),
              err |-> Nil]

\* Mutant: every ad is flagged as owned by an authenticated caller.
ToAdResponseAnyAuthenticatedOwner(ad, currentUserID) ==
    [ID |-> ad.ID, UserID |-> ad.UserID, Title |-> ad.Title, Text |-> ad.Text,
     ImageURL |-> ad.ImageURL, Price |-> ad.Price, CreatedAt |-> ad.CreatedAt,
     AuthorLogin |-> ad.AuthorLogin,
     IsOwner |-> currentUserID # 0]

ToAdResponse(ad, currentUserID) ==
    [ID |-> ad.ID, UserID |-> ad.UserID, Title |-> ad.Title, Text |-> ad.Text,
     ImageURL |-> ad.ImageURL, Price |-> ad.Price, CreatedAt |-> ad.CreatedAt,
     AuthorLogin |-> ad.AuthorLogin,
     IsOwner |-> currentUserID # 0 /\ currentUserID = ad.UserID]

ToAdResponseList(list, currentUserID) ==
    [i \in 1..Len(list) |-> ToAdResponse(list[i], currentUserID)]

\* What a handler did: the response, the service calls it made (argument,
\* result and error of each), the store calls of those, and the ads table
\* after the request.
HandlerReturn(resp, service, calls, rows, nextID) ==
    [resp |-> resp, service |-> service, calls |-> calls, rows |-> rows, nextID |-> nextID]

\* The request body of POST /ads: whether it decodes as JSON into an
\* AdRequest, the fields it decodes to, and the members of the JSON object
\* that AdRequest does not declare (name and value), which the decoder skips.
AdRequest(title, text, price) ==
    [decodes |-> TRUE, Title |-> title, Text |-> text, ImageURL |-> <<>>, Price |-> price,
     other |-> {}]
UndecodableBody ==
    [decodes |-> FALSE, Title |-> <<>>, Text |-> <<>>, ImageURL |-> <<>>, Price |-> 0, other |-> {}]

\* Mutant: the handler does not require a user ID in the context.
AdsHandlerCreateAdWithoutUserCheck(ctx, body, userFault, adFault) ==
    IF ~body.decodes
    THEN HandlerReturn(respondWithError(StatusBadRequest, <<"invalid request body">>),
                       <<>>, <<>>, ads, nextAdID)
    ELSE LET ad == [ID |-> 0, UserID |-> ctx.userID, Title |-> body.Title, Text |-> body.Text,
                    ImageURL |-> body.ImageURL, Price |-> body.Price,
                    AuthorLogin |-> <<>>, CreatedAt |-> ZeroTime]
             r == CreateAdResult(ad, userFault, adFault)
             service == <<[fn |-> "CreateAd", arg |-> ad, err |-> r.err]>>
         IN  IF r.err # Nil
             THEN HandlerReturn(handleServiceError(r.err), service, r.calls, r.rows, r.nextID)
             ELSE HandlerReturn(Response(StatusCreated, <<>>, r.id, <<>>),
                                service, r.calls, r.rows, r.nextID)

\* Mutant: a user_id member of the body names the owner.
AdsHandlerCreateAdOwnerFromBody(ctx, body, userFault, adFault) ==
    IF ~ctx.ok
    THEN HandlerReturn(respondWithError(StatusUnauthorized, <<"unauthorized">>),
                       <<>>, <<>>, ads, nextAdID)
    ELSE IF ~body.decodes
    THEN HandlerReturn(respondWithError(StatusBadRequest, <<"invalid request body">>),
                       <<>>, <<>>, ads, nextAdID)
    ELSE LET named == {m \in body.other : m[1] = "user_id"}
             ad == [ID |-> 0, UserID |-> IF named = {} THEN ctx.userID ELSE (CHOOSE m \in named : TRUE)[2],
                    Title |-> body.Title, Text |-> body.Text,
                    ImageURL |-> body.ImageURL, Price |-> body.Price,
                    AuthorLogin |-> <<>>, CreatedAt |-> ZeroTime]
             r == CreateAdResult(ad, userFault, adFault)
             service == <<[fn |-> "CreateAd", arg |-> ad, err |-> r.err]>>
         IN  IF r.err # Nil
             THEN HandlerReturn(handleServiceError(r.err), service, r.calls, r.rows, r.nextID)
             ELSE HandlerReturn(Response(StatusCreated, <<>>, r.id, <<>>),
                                service, r.calls, r.rows, r.nextID)

AdsHandlerCreateAd(ctx, body, userFault, adFault) ==
    IF ~ctx.ok
    THEN HandlerReturn(respondWithError(StatusUnauthorized, <<"unauthorized">>),
                       <<>>, <<>>, ads, nextAdID)
    ELSE IF ~body.decodes
    THEN HandlerReturn(respondWithError(StatusBadRequest, <<"invalid request body">>),
                       <<>>, <<>>, ads, nextAdID)
    ELSE LET ad == [ID |-> 0, UserID |-> ctx.userID, Title |-> body.Title, Text |-> body.Text,
                    ImageURL |-> body.ImageURL, Price |-> body.Price,
                    AuthorLogin |-> <<>>, CreatedAt |-> ZeroTime]
             r == CreateAdResult(ad, userFault, adFault)
             service == <<[fn |-> "CreateAd", arg |-> ad, err |-> r.err]>>
         IN  IF r.err # Nil
             THEN HandlerReturn(handleServiceError(r.err), service, r.calls, r.rows, r.nextID)
             ELSE HandlerReturn(Response(StatusCreated, <<>>, r.id, <<>>),
                                service, r.calls, r.rows, r.nextID)

AdsHandlerListAds(ctx, query, fault) ==
    LET p == parseListAdsParams(query)
    IN  IF p.err # Nil
        THEN HandlerReturn(respondWithError(StatusBadRequest, p.err.msg), <<>>, <<>>, ads, nextAdID)
        ELSE LET r == ListAdsResult(p.params, fault)
                 service == <<[fn |-> "ListAds", arg |-> p.params, result |-> r.ads, err |-> r.err]>>
                 currentUserID == IF ctx.ok THEN ctx.userID ELSE 0
             IN  IF r.err # Nil
                 THEN HandlerReturn(handleServiceError(r.err), service, r.calls, ads, nextAdID)
                 ELSE HandlerReturn(Response(StatusOK, <<>>, 0, ToAdResponseList(r.ads, currentUserID)),
                                    service, r.calls, ads, nextAdID)

\* A request served by a route: what the middleware did, then what the
\* handler did when the middleware called it.
Served(m, h) ==
    [ctx |-> m.ctx, parses |-> m.parses, service |-> h.service, calls |-> m.calls \o h.calls,
     resp |-> h.resp, rows |-> h.rows, nextID |-> h.nextID]
Stopped(m) ==
    [ctx |-> m.ctx, parses |-> m.parses, service |-> <<>>, calls |-> m.calls,
     resp |-> m.resp, rows |-> ads, nextID |-> nextAdID]

\* NewRouter: POST /v1/ads lies in the group that uses AuthCtx.
RoutePostAds(header, body, tokenFault, userFault, adFault) ==
    LET m == AuthCtx(header, tokenFault)
    IN  IF m.next THEN Served(m, AdsHandlerCreateAd(m.ctx, body, userFault, adFault)) ELSE Stopped(m)

\* NewRouter: GET /v1/ads is a public route: the handler is called with the
\* context of the request as it arrived.
RouteGetAdsPublic(header, query, tokenFault, fault) ==
    Served(MiddlewareNext(NoUser, <<>>, <<>>), AdsHandlerListAds(NoUser, query, fault))

\* GET /ads with optional authentication: the route uses AuthOptionalCtx.
RouteGetAdsOptionalAuth(header, query, tokenFault, fault) ==
    LET m == AuthOptionalCtx(header, tokenFault)
    IN  Served(m, AdsHandlerListAds(m.ctx, query, fault))


----------------------------------------------------------------------------
(* The transport layer as steps of the system: registrations and ads build  *)
(* up the stores, then one HTTP request is observed, or one service error   *)
(* is handed to handleServiceError.                                         *)

PostAds(header, body, tokenFault, userFault, adFault) ==
    /\ Running
    /\ \E r \in {RoutePostAds(header, body, tokenFault, userFault, adFault)} :
               /\ Len(r.rows) <= MaxAds
               /\ ads' = r.rows
               /\ nextAdID' = r.nextID
               /\ last' = [op |-> "POST /v1/ads", header |-> header, body |-> body,
                           tokenFault |-> tokenFault, ctx |-> r.ctx, parses |-> r.parses, service |-> r.service, calls |-> r.calls,
                           resp |-> r.resp]
               /\ UNCHANGED <<users, nextUserID, now, registered, held, inflight>>

GetAds(optionalAuth, header, query, tokenFault, fault) ==
    /\ Running
    /\ \E r \in {IF optionalAuth THEN RouteGetAdsOptionalAuth(header, query, tokenFault, fault)
                 ELSE RouteGetAdsPublic(header, query, tokenFault, fault)} :
               /\ last' = [op |-> "GET /v1/ads", optionalAuth |-> optionalAuth, header |-> header,
                           query |-> query, tokenFault |-> tokenFault, ctx |-> r.ctx,
                           parses |-> r.parses, service |-> r.service, calls |-> r.calls, resp |-> r.resp]
               /\ UNCHANGED <<users, nextUserID, ads, nextAdID, now, registered, held, inflight>>

ServiceError(err) ==
    /\ Running
    /\ last' = [op |-> "handleServiceError", err |-> err, resp |-> handleServiceError(err)]
    /\ UNCHANGED <<users, nextUserID, ads, nextAdID, now, registered, held, inflight>>

\* Tokens a client may present: the one the service would issue for user 1
\* or user 2, and that token expired, signed with another key, declaring a
\* non-HMAC method, or naming no user.
UserTwoToken == [BaseToken EXCEPT !.sub = FormatInt(2)]
BearerTokens ==
    {BaseToken, UserTwoToken, [BaseToken EXCEPT !.exp = 1], [BaseToken EXCEPT !.key = OtherSecret],
     [BaseToken EXCEPT !.alg = "RS256"], [BaseToken EXCEPT !.sub = <<"x">>],
     [BaseToken EXCEPT !.sub = FormatInt(7)]}

Bearer(token) == <<Word("Bearer"), TokenString(token)>>

MalformedHeaders ==
    {<<Word("Bearer")>>, <<TokenString(BaseToken)>>,
     <<Word("bearer"), TokenString(BaseToken)>>, <<Word("Basic"), TokenString(BaseToken)>>,
     <<Word("Bearer"), TokenString(BaseToken), Word("x")>>,
     <<Word("Bearer"), Word(""), TokenString(BaseToken)>>}

PostAdsHeaders ==
    {NoHeader, Bearer(EmptyToken)} \cup MalformedHeaders \cup {Bearer(t) : t \in BearerTokens}

PostAdsBodies ==
    {AdRequest(<<"T">>, <<"x">>, 5), AdRequest(<<>>, <<"x">>, 5), AdRequest(<<"T">>, <<"x">>, -5),
     UndecodableBody}
    \cup {[AdRequest(<<"T">>, <<"x">>, 5) EXCEPT !.other = {<<name, userID>>}] :
            name \in {"user_id", "UserID", "id"}, userID \in 1..MaxUsers}
    \cup {[AdRequest(<<"T">>, <<"x">>, 5) EXCEPT !.other = {<<"author_login", LoginZ77>>}]}

GetAdsHeaders ==
    {NoHeader, Bearer(BaseToken), Bearer(UserTwoToken), Bearer([BaseToken EXCEPT !.exp = 1]),
     <<Word("Basic"), TokenString(BaseToken)>>}

BaseRawQuery == RawQuery("", "", <<>>, <<>>, <<>>, <<>>)

GetAdsQueries ==
    {RawQuery(sortBy, "", page, limit, minPrice, <<>>) :
        sortBy \in {"", "price"}, page \in {<<>>, FormatInt(2), <<"x">>},
        limit \in {<<>>, FormatInt(1)}, minPrice \in {<<>>, FormatInt(5)}}
    \cup {[BaseRawQuery EXCEPT !.sort_by = "name"], [BaseRawQuery EXCEPT !.order = "desc"],
          [BaseRawQuery EXCEPT !.page = FormatInt(-1)],
          [BaseRawQuery EXCEPT !.page = FormatInt(MaxInt + 1)],
          [BaseRawQuery EXCEPT !.limit = FormatInt(MaxLimit + 1)],
          [BaseRawQuery EXCEPT !.limit = <<"1", "x">>],
          [BaseRawQuery EXCEPT !.min_price = <<" ", "5">>],
          [BaseRawQuery EXCEPT !.max_price = <<"5", ".", "0">>],
          [BaseRawQuery EXCEPT !.min_price = FormatInt(5), !.max_price = FormatInt(0)],
          [BaseRawQuery EXCEPT !.page = FormatInt(3), !.limit = FormatInt(10)],
          [BaseRawQuery EXCEPT !.page = FormatInt(MaxInt)],
          [BaseRawQuery EXCEPT !.page = FormatInt(MaxInt), !.limit = FormatInt(MaxLimit)]}

\* The errors of the service layer and of the layers below it, as they are
\* before any context string is added.
ErrorKinds ==
    {SvcErrInvalidInput, SvcErrConflict, SvcErrAdNotFound, SvcErrUserNotFound, SvcErrUnauthorized,
     SvcErrForbidden, SvcErrInvalidCredentials, SvcErrUserExists,
     ErrorfWText(SvcErrInvalidInput, "user not found"),
     ErrorfWV(SvcErrInvalidInput, NewError("price must be non-negative")),
     StoErrUserNotFound, StoErrAdExists, StoErrForeignKeyViolation, PgConnError, CtxCanceled,
     NewError("storage.ListAds: params cannot be nil")}

\* The most context strings added around one error.
MaxWraps == 2

\* fmt.Errorf("<context>: %w", err), n times over.
RECURSIVE Wrapped(_, _)
Wrapped(err, n) == IF n = 0 THEN err ELSE ErrorfCtx("context", Wrapped(err, n - 1))

ObservedPostAds ==
    /\ Running
    /\ \E header \in PostAdsHeaders, body \in PostAdsBodies, tokenFault \in {"none", "conn"},
          faults \in CreateAdFaults :
           PostAds(header, body, tokenFault, faults[1], faults[2])

ObservedGetAds ==
    /\ Running
    /\ \E optionalAuth \in BOOLEAN, header \in GetAdsHeaders, query \in GetAdsQueries,
          tokenFault \in {"none", "conn"}, fault \in StoreFaults :
           GetAds(optionalAuth, header, query, tokenFault, fault)

ObservedServiceError ==
    /\ Running
    /\ \E kind \in ErrorKinds, n \in 0..MaxWraps :
           ServiceError(Wrapped(kind, n))

NextHTTP ==
    \/ AdsEarlierRegister
    \/ AdsEarlierCreateAd
    \/ ObservedPostAds
    \/ ObservedGetAds
    \/ ObservedServiceError

SpecHTTP == Init /\ [][NextHTTP]_vars


----------------------------------------------------------------------------
(* Properties of the transport layer.                                       *)

\* The user ID the request's token was resolved to; 0 when the request
\* carried no token that ParseToken resolved.
ResolvedUserID ==
    IF last.parses # <<>> /\ last.parses[1].err = Nil THEN last.parses[1].user.ID ELSE 0

\* The stored ads with the given ID.
StoredAds(id) == {i \in 1..Len(ads) : ads[i].ID = id}

C18_WitnessUnauthenticated ==
    /\ last.op = "GET /v1/ads"
    /\ last.resp.status = StatusOK
    /\ last.header = NoHeader
    /\ Len(last.resp.ads) = 2
    /\ \A i \in 1..2 : ~last.resp.ads[i].IsOwner


\* The header is the word Bearer, one space, and one more part.
IsBearerHeader(header) == Len(header) = 2 /\ header[1].text = "Bearer"

\* C19: for a POST /ads request the ads service's CreateAd is invoked only
\* if the request carried a Bearer token that ParseToken resolved to a user,
\* and then for that user; a missing header, a malformed header and every
\* ParseToken failure end the request with 401 and without a call of the
\* service.
C19_CreateAdRequiresAuthentication ==
    last.op = "POST /v1/ads"
        => /\ last.service # <<>>
                => /\ IsBearerHeader(last.header)
                   /\ ParseTokenResult(last.header[2].token, last.tokenFault).err = Nil
                   /\ Len(last.parses) = 1
                   /\ last.parses[1].token = last.header[2].token
                   /\ last.parses[1].err = Nil
                   /\ RowsWithID(last.parses[1].user.ID) # {}
                   /\ Len(last.service) = 1
                   /\ last.service[1].fn = "CreateAd"
                   /\ last.service[1].arg.UserID = last.parses[1].user.ID
           /\ (\/ ~IsBearerHeader(last.header)
               \/ ParseTokenResult(last.header[2].token, last.tokenFault).err # Nil)
                => /\ last.resp.status = StatusUnauthorized
                   /\ last.service = <<>>
                   /\ \A i \in 1..Len(last.calls) : last.calls[i].fn = "FindUserByID"


\* A request with a well-formed body and a token of a valid signature and
\* expiry was refused because the store failed while the user was looked up.
C19_Witness ==
    /\ last.op = "POST /v1/ads"
    /\ IsBearerHeader(last.header)
    /\ jwtParse(last.header[2].token) = Nil
    /\ last.body = AdRequest(<<"T">>, <<"x">>, 5)
    /\ Len(last.parses) = 1
    /\ ErrorsIs(last.parses[1].err, PgConnError)
    /\ RowsWithID(SscanfInt(last.header[2].token.sub).value) # {}
    /\ last.resp.status = StatusUnauthorized
    /\ last.service = <<>>

\* A request without the header was refused by the handler.
C19_WitnessMissingHeader ==
    /\ last.op = "POST /v1/ads"
    /\ last.header = NoHeader
    /\ last.body.decodes
    /\ last.parses = <<>>
    /\ last.resp = respondWithError(StatusUnauthorized, <<"unauthorized">>)

\* A request with a malformed header was refused by the middleware.
C19_WitnessMalformedHeader ==
    /\ last.op = "POST /v1/ads"
    /\ last.header = <<Word("bearer"), TokenString(BaseToken)>>
    /\ RowsWithID(1) # {}
    /\ last.resp = httpError("invalid auth header", StatusUnauthorized)

\* Requests with an expired token, a token of another key and a token of a
\* user that does not exist were refused.
C19_WitnessExpired ==
    /\ last.op = "POST /v1/ads"
    /\ last.header = Bearer([BaseToken EXCEPT !.exp = 1])
    /\ RowsWithID(1) # {}
    /\ last.resp = httpError("invalid token", StatusUnauthorized)

C19_WitnessBadSignature ==
    /\ last.op = "POST /v1/ads"
    /\ last.header = Bearer([BaseToken EXCEPT !.key = OtherSecret])
    /\ RowsWithID(1) # {}
    /\ last.resp = httpError("invalid token", StatusUnauthorized)

C19_WitnessUserNotFound ==
    /\ last.op = "POST /v1/ads"
    /\ last.header = Bearer(UserTwoToken)
    /\ last.tokenFault = "none"
    /\ RowsWithID(2) = {}
    /\ ErrorsIs(last.parses[1].err, SvcErrUserNotFound)
    /\ last.resp = httpError("invalid token", StatusUnauthorized)

\* An authenticated request created an ad for the user of its token.
C19_WitnessCreated ==
    /\ last.op = "POST /v1/ads"
    /\ last.header = Bearer(UserTwoToken)
    /\ last.resp.status = StatusCreated
    /\ Len(last.service) = 1
    /\ last.service[1].arg.UserID = 2
    /\ \E i \in 1..Len(ads) : ads[i].ID = last.resp.id /\ ads[i].UserID = 2


\* The service errors that the transport layer classified in the observed
\* request, each with the response written for it.
Classified ==
    IF last.op = "handleServiceError" THEN {[err |-> last.err, resp |-> last.resp]}
    ELSE IF last.op \in {"POST /v1/ads", "GET /v1/ads"}
    THEN {[err |-> last.service[i].err, resp |-> last.resp] :
             i \in {j \in 1..Len(last.service) : last.service[j].err # Nil}}
    ELSE {}

\* The error is of the kind of the sentinel: the sentinel lies in its chain.
OfKind(err, sentinel) == \E name \in sentinel.is : name \in err.is

KnownKinds ==
    {SvcErrInvalidInput, SvcErrConflict, SvcErrAdNotFound, SvcErrUserNotFound, SvcErrUnauthorized,
     SvcErrForbidden}

\* The texts of the failures of the store and of the infrastructure below it.
InternalTexts ==
    {PgConnError.msg[1], CtxCanceled.msg[1], StoErrAdExists.msg[1], StoErrForeignKeyViolation.msg[1],
     "OFFSET and LIMIT must not be negative", "storage.ListAds: params cannot be nil",
     "storage.ListAds", "storage.CreateAd"}

Mentions(resp, texts) == \E i \in 1..Len(resp.error) : resp.error[i] \in texts

C20_WitnessWrappedKinds ==
    /\ last.op = "handleServiceError"
    /\ OfKind(last.err, SvcErrForbidden)
    /\ last.err.msg = <<"context", "context", "forbidden">>
    /\ last.resp = respondWithError(StatusForbidden, <<"forbidden">>)

\* A creation met a uniqueness violation: 409.
C20_WitnessConflict ==
    /\ last.op = "POST /v1/ads"
    /\ Len(last.service) = 1
    /\ last.service[1].err = SvcErrConflict
    /\ last.resp = respondWithError(StatusConflict, <<"resource conflict">>)

\* A creation met a referential-integrity violation: 400 without the
\* store's text.
C20_WitnessInvalidReference ==
    /\ last.op = "POST /v1/ads"
    /\ Len(last.service) = 1
    /\ \E i \in 1..Len(last.calls) : ErrorsIs(last.calls[i].err, StoErrForeignKeyViolation)
    /\ last.resp = respondWithError(StatusBadRequest, <<"invalid input", "invalid data reference">>)


----------------------------------------------------------------------------
(* Further properties of the ad service (SpecAds).                          *)

\* The rules of a listing query in the order of their checks: whether the
\* query violates the rule, the field the rule is about, and the message of
\* the violation.
ListRules(q) ==
    << [violated |-> q.SortBy \notin {"", "price", "created_at"}, field |-> "sort_by",
        message |-> "invalid sort_by parameter: must be 'price' or 'created_at'"],
       [violated |-> q.Order \notin {"", "asc", "desc"}, field |-> "order",
        message |-> "invalid order parameter: must be 'asc' or 'desc'"],
       [violated |-> q.Page < 0, field |-> "page", message |-> "page must be positive"],
       [violated |-> q.Limit < 0, field |-> "limit", message |-> "limit must be positive"],
       [violated |-> q.Limit > 100, field |-> "limit", message |-> "limit cannot exceed 100"],
       [violated |-> ~q.MinPrice.nil /\ q.MinPrice.v < 0, field |-> "min_price",
        message |-> "min_price must be non-negative"],
       [violated |-> ~q.MaxPrice.nil /\ q.MaxPrice.v < 0, field |-> "max_price",
        message |-> "max_price must be non-negative"],
       [violated |-> ~q.MinPrice.nil /\ ~q.MaxPrice.nil /\ q.MinPrice.v > q.MaxPrice.v,
        field |-> "min_price",
        message |-> "min_price cannot be greater than max_price"] >>

ViolatedListRules(q) == {i \in 1..Len(ListRules(q)) : ListRules(q)[i].violated}

\* C21: a listing query that violates several rules is refused with exactly
\* one violation, the first in the order sort key, order, page, limit
\* (negative, then over 100), minPrice, maxPrice, price range; the error is
\* of the validation kind only, its message is that rule's message, which
\* names the rule's field, and the store is not called.
C21_FirstViolationReported ==
    (/\ last.op = "ListAds"
     /\ last.params # NilParams
     /\ ViolatedListRules(last.params) # {})
        => LET first == CHOOSE i \in ViolatedListRules(last.params) :
                            \A j \in ViolatedListRules(last.params) : i <= j
           IN  /\ last.err.is = SvcErrInvalidInput.is
               /\ last.err.msg = SvcErrInvalidInput.msg \o <<ListRules(last.params)[first].message>>
               /\ \A j \in ViolatedListRules(last.params) \ {first} :
                      ListRules(last.params)[j].message # ListRules(last.params)[first].message
               /\ last.calls = <<>>
               /\ last.ads = <<>>

\* A query with an unknown order, a negative page and a limit over 100 was
\* refused for its order.
C21_Witness ==
    /\ last.op = "ListAds"
    /\ last.params # NilParams
    /\ ViolatedListRules(last.params) = {2, 3, 5}
    /\ last.err.msg[2] = "invalid order parameter: must be 'asc' or 'desc'"

\* A query that violates a rule of every field was refused for its sort key.
C21_WitnessAllRules ==
    /\ last.op = "ListAds"
    /\ last.params # NilParams
    /\ Cardinality(ViolatedListRules(last.params)) >= 6
    /\ last.err.msg[2] = "invalid sort_by parameter: must be 'price' or 'created_at'"


\* The error is of neither the validation nor the conflict kind.
Internal(err) ==
    /\ err # Nil
    /\ ~ErrorsIs(err, SvcErrInvalidInput)
    /\ ~ErrorsIs(err, SvcErrConflict)

\* C22: when the ad store's CreateAd fails, the service returns a validation
\* error for a foreign key violation, a conflict error for a uniqueness
\* violation and an error that is neither for every other failure, each
\* time with the ad ID 0; a failure of the ad store's ListAds is returned as
\* an error that is neither validation nor conflict.
C22_AdStoreFailuresMapped ==
    /\ (/\ last.op = "CreateAd"
        /\ Len(last.calls) = 2
        /\ last.calls[2].err # Nil)
          => /\ last.calls[2].fn = "CreateAd"
             /\ last.id = 0
             /\ ErrorsIs(last.calls[2].err, StoErrForeignKeyViolation)
                   => /\ ErrorsIs(last.err, SvcErrInvalidInput)
                      /\ ~ErrorsIs(last.err, SvcErrConflict)
             /\ ErrorsIs(last.calls[2].err, StoErrAdExists)
                   => /\ ErrorsIs(last.err, SvcErrConflict)
                      /\ ~ErrorsIs(last.err, SvcErrInvalidInput)
             /\ (/\ ~ErrorsIs(last.calls[2].err, StoErrForeignKeyViolation)
                 /\ ~ErrorsIs(last.calls[2].err, StoErrAdExists))
                   => /\ Internal(last.err)
                      /\ last.err.is = last.calls[2].err.is
    /\ (/\ last.op = "ListAds"
        /\ last.calls # <<>>
        /\ last.calls[1].err # Nil)
          => /\ Internal(last.err)
             /\ last.err.is = last.calls[1].err.is
             /\ last.ads = <<>>

\* The insert of a valid ad of a registered user failed on a lost
\* connection: the service returned an internal error and the ID 0.
C22_Witness ==
    /\ last.op = "CreateAd"
    /\ Len(last.calls) = 2
    /\ last.calls[1].err = Nil
    /\ ErrorsIs(last.calls[2].err, PgConnError)
    /\ Internal(last.err)
    /\ last.id = 0

\* The insert met a foreign key violation.
C22_WitnessForeignKey ==
    /\ last.op = "CreateAd"
    /\ Len(last.calls) = 2
    /\ last.calls[2].err = StoErrForeignKeyViolation
    /\ last.err = ErrorfWText(SvcErrInvalidInput, "invalid data reference")

\* The insert met a uniqueness violation.
C22_WitnessUnique ==
    /\ last.op = "CreateAd"
    /\ Len(last.calls) = 2
    /\ last.calls[2].err = StoErrAdExists
    /\ last.err = SvcErrConflict

\* A listing failed in the store.
C22_WitnessListAds ==
    /\ last.op = "ListAds"
    /\ last.calls # <<>>
    /\ ErrorsIs(last.calls[1].err, CtxCanceled)
    /\ Internal(last.err)


\* The calls of the ad store's CreateAd in the observed request.
AdStoreCalls == {i \in 1..Len(last.calls) : last.calls[i].fn = "CreateAd"}

\* C23: whenever CreateAd calls the ad store, the ad it passes carries as
\* author login the login of the user the user store holds for the ad's user
\* ID; an author login supplied by the caller is overwritten; user ID, title,
\* text, image and price are passed as the caller gave them.  An ad that is
\* stored holds the same values.
C23_AuthorLoginFromUserStore ==
    last.op = "CreateAd"
        => \A i \in AdStoreCalls :
               /\ i = 2
               /\ last.calls[1] = Call("FindUserByID", last.ad.UserID, Nil)
               /\ RowsWithID(last.ad.UserID) # {}
               /\ \A u \in RowsWithID(last.ad.UserID) :
                      last.calls[i].arg.AuthorLogin = users[u].Login
               /\ last.calls[i].arg.UserID = last.ad.UserID
               /\ last.calls[i].arg.Title = last.ad.Title
               /\ last.calls[i].arg.Text = last.ad.Text
               /\ last.calls[i].arg.ImageURL = last.ad.ImageURL
               /\ last.calls[i].arg.Price = last.ad.Price
               /\ last.err = Nil
                     => \E j \in 1..Len(ads) :
                            /\ ads[j].ID = last.id
                            /\ ads[j] = [last.calls[i].arg EXCEPT !.ID = ads[j].ID,
                                                                  !.CreatedAt = ads[j].CreatedAt]

\* The caller supplied the login of another registered user as author login
\* and an image: the ad was stored with the login of its own user and with
\* the image.
C23_Witness ==
    /\ last.op = "CreateAd"
    /\ last.err = Nil
    /\ last.ad.ImageURL # <<>>
    /\ last.ad.AuthorLogin # <<>>
    /\ \E u \in 1..Len(users) : users[u].Login = last.ad.AuthorLogin /\ users[u].ID # last.ad.UserID
    /\ \E j \in 1..Len(ads) :
           /\ ads[j].ID = last.id
           /\ ads[j].AuthorLogin # last.ad.AuthorLogin
           /\ ads[j].ImageURL = last.ad.ImageURL


----------------------------------------------------------------------------
(* The five service operations together: registrations and ads build up the *)
(* stores, then one request of any operation is observed.                   *)

NextServices ==
    \/ AdsEarlierRegister
    \/ AdsEarlierCreateAd
    \/ ObservedRegister
    \/ ObservedLogin
    \/ ObservedParseToken
    \/ ObservedCreateAd
    \/ ObservedListAds

SpecServices == Init /\ [][NextServices]_vars

\* The calls of the store method fn in the observed request.
CallsOf(fn) == {i \in 1..Len(last.calls) : last.calls[i].fn = fn}

\* The store methods an operation may call.
StoreMethods(op) ==
    CASE op = "Register" -> {"CreateUser"}
      [] op = "Login" -> {"FindByLogin"}
      [] op = "ParseToken" -> {"FindUserByID"}
      [] op = "CreateAd" -> {"FindUserByID", "CreateAd"}
      [] op = "ListAds" -> {"ListAds"}
      [] OTHER -> {}

\* C24: no service operation retries a store call.  Within one request
\* Register calls CreateUser at most once, Login FindByLogin at most once,
\* ParseToken FindUserByID at most once, CreateAd FindUserByID at most once
\* and the ad store's CreateAd at most once, ListAds the ad store's ListAds
\* at most once, and none calls another store method; a store call that
\* fails, by cancellation too, is the last call of the request, and the
\* request ends with an error.
C24_NoRetries ==
    last.op \in {"Register", "Login", "ParseToken", "CreateAd", "ListAds"}
        => /\ \A i \in 1..Len(last.calls) : last.calls[i].fn \in StoreMethods(last.op)
           /\ \A fn \in StoreMethods(last.op) : Cardinality(CallsOf(fn)) <= 1
           /\ \A i \in 1..Len(last.calls) :
                  last.calls[i].err # Nil => (i = Len(last.calls) /\ last.err # Nil)

\* A CreateAd request whose user lookup was cancelled ended with an error
\* after that one call.
C24_Witness ==
    /\ last.op = "CreateAd"
    /\ Len(last.calls) = 1
    /\ ErrorsIs(last.calls[1].err, CtxCanceled)
    /\ last.err # Nil
    /\ ErrorsIs(last.err, CtxCanceled)

\* A listing failed in the store after one call.
C24_WitnessListAds ==
    /\ last.op = "ListAds"
    /\ Len(last.calls) = 1
    /\ last.calls[1].err # Nil

\* A registration failed in the store after one call.
C24_WitnessRegister ==
    /\ last.op = "Register"
    /\ Len(last.calls) = 1
    /\ ErrorsIs(last.calls[1].err, PgConnError)

\* A login failed in the store after one call.
C24_WitnessLogin ==
    /\ last.op = "Login"
    /\ Len(last.calls) = 1
    /\ ErrorsIs(last.calls[1].err, CtxCanceled)

\* A token check failed in the store after one call.
C24_WitnessParseToken ==
    /\ last.op = "ParseToken"
    /\ Len(last.calls) = 1
    /\ ErrorsIs(last.calls[1].err, PgConnError)


----------------------------------------------------------------------------
(* Further properties of the authentication flows (Spec).                   *)

\* C25: Login checks the format of the login and then only that the password
\* is not empty.  A login of invalid format or an empty password gives a
\* validation error without a store call.  Every other request, whether or
\* not Register would accept its password, looks the login up once; when
\* the user is found, the outcome is decided by the comparison with the
\* stored hash alone and is never a validation error.
C25_LoginChecksOnlyPresenceOfPassword ==
    last.op = "Login"
        => /\ (~LoginWellFormed(last.login) \/ last.password = <<>>)
                 => /\ ErrorsIs(last.err, SvcErrInvalidInput)
                    /\ last.calls = <<>>
                    /\ last.token = EmptyToken
           /\ (~LoginWellFormed(last.login))
                 => last.err = ErrorfWV(SvcErrInvalidInput, ErrInvalidLogin)
           /\ (LoginWellFormed(last.login) /\ last.password = <<>>)
                 => last.err = ErrorfWText(SvcErrInvalidInput, "password is required")
           /\ (LoginWellFormed(last.login) /\ last.password # <<>>)
                 => /\ Len(last.calls) = 1
                    /\ last.calls[1].fn = "FindByLogin"
                    /\ last.calls[1].arg = last.login
                    /\ ~ErrorsIs(last.err, SvcErrInvalidInput)
                    /\ last.calls[1].err = Nil
                          => /\ RowsWithLogin(last.login) # {}
                             /\ \A u \in RowsWithLogin(last.login) :
                                    IF users[u].PasswordHash.of = last.password
                                    THEN last.err = Nil /\ last.token # EmptyToken
                                    ELSE last.err = SvcErrInvalidCredentials

\* A login of a registered user with a password that Register would reject
\* went to the lookup and the comparison and failed there.
C25_Witness ==
    /\ last.op = "Login"
    /\ validatePassword(last.password) # Nil
    /\ last.password # <<>>
    /\ last.calls = <<Call("FindByLogin", last.login, Nil)>>
    /\ RowsWithLogin(last.login) # {}
    /\ last.err = SvcErrInvalidCredentials

\* An empty password was refused before the store for a registered login.
C25_WitnessEmptyPassword ==
    /\ last.op = "Login"
    /\ last.password = <<>>
    /\ RowsWithLogin(last.login) # {}
    /\ last.calls = <<>>
    /\ last.err = ErrorfWText(SvcErrInvalidInput, "password is required")


----------------------------------------------------------------------------
(* Concurrent requests.  Each request is a goroutine running Register or    *)
(* CreateAd; the steps of a request are its local computation up to the     *)
(* next store call, and each store call, which is one SQL statement and     *)
(* atomic in the database.  The steps of different requests interleave in   *)
(* any order.  A request is held in inflight with its position pc: the      *)
(* store call it is about to make, or "done".                               *)

\* The most requests in flight together.
MaxRequests == 3

RegisterRequest(login, password, pc, u, token, user, err) ==
    [op |-> "Register", login |-> login, password |-> password, pc |-> pc, u |-> u,
     token |-> token, user |-> user, err |-> err]

CreateAdRequest(given, pc, ad, id, err) ==
    [op |-> "CreateAd", given |-> given, pc |-> pc, ad |-> ad, id |-> id, err |-> err]

\* Register, lines 37-52: validation and hashing, up to the call of CreateUser.
RegisterBeginStep(login, password) ==
    /\ Len(inflight) < MaxRequests
    /\ LET invalid == RegisterValidate(login, password)
           h == bcryptGenerateFromPassword(password)
           u == [ID |-> 0, Login |-> login, PasswordHash |-> h.hash, CreatedAt |-> ZeroTime]
       IN  inflight' = Append(inflight,
               IF invalid # Nil
               THEN RegisterRequest(login, password, "done", NilUser, EmptyToken, NilUser, invalid)
               ELSE IF h.err # Nil
               THEN RegisterRequest(login, password, "done", NilUser, EmptyToken, NilUser,
                                    ErrorfCtx("failed to hash password", h.err))
               ELSE RegisterRequest(login, password, "CreateUser", u, EmptyToken, NilUser, Nil))
    /\ UNCHANGED <<users, nextUserID, ads, nextAdID, now, registered, held, last>>

\* Register, lines 54-66: the call of CreateUser and the rest of the method.
RegisterCreateUserStep(i) ==
    /\ i \in 1..Len(inflight)
    /\ inflight[i].op = "Register"
    /\ inflight[i].pc = "CreateUser"
    /\ LET r == inflight[i]
           c == UserStoreCreateUser(r.u, "none")
       IN  /\ Len(c.rows) <= MaxUsers
           /\ users' = c.rows
           /\ nextUserID' = c.nextID
           /\ registered' = IF c.err = Nil
                            THEN registered \cup {[login |-> r.login, password |-> r.password, id |-> c.u.ID]}
                            ELSE registered
           /\ inflight' = [inflight EXCEPT ![i] =
                  IF c.err # Nil
                  THEN RegisterRequest(r.login, r.password, "done", c.u, EmptyToken, NilUser,
                                       RegisterStoreError(c.err))
                  ELSE RegisterRequest(r.login, r.password, "done", c.u, generateToken(c.u), c.u, Nil)]
    /\ UNCHANGED <<ads, nextAdID, now, held, last>>

\* CreateAd, lines 40-42: validation, up to the call of FindUserByID.
CreateAdBeginStep(ad) ==
    /\ Len(inflight) < MaxRequests
    /\ LET invalid == validateAd(ad)
       IN  inflight' = Append(inflight,
               IF invalid # Nil
               THEN CreateAdRequest(ad, "done", ad, 0, ErrorfWV(SvcErrInvalidInput, invalid))
               ELSE CreateAdRequest(ad, "FindUserByID", ad, 0, Nil))
    /\ UNCHANGED <<users, nextUserID, ads, nextAdID, now, registered, held, last>>

\* Mutant: the author login the caller supplied is kept.
CreateAdFindUserStepKeepingAuthorLogin(i) ==
    /\ i \in 1..Len(inflight)
    /\ inflight[i].op = "CreateAd"
    /\ inflight[i].pc = "FindUserByID"
    /\ LET r == inflight[i]
           f == UserStoreFindUserByID(r.ad.UserID, "none")
       IN  inflight' = [inflight EXCEPT ![i] =
               IF f.err # Nil
               THEN CreateAdRequest(r.given, "done", r.ad, 0, CreateAdLookupError(f.err))
               ELSE CreateAdRequest(r.given, "CreateAd", r.ad, 0, Nil)]
    /\ UNCHANGED <<users, nextUserID, ads, nextAdID, now, registered, held, last>>

\* CreateAd, lines 45-54: the call of FindUserByID and the assignment of the
\* author login.
CreateAdFindUserStep(i) ==
    /\ i \in 1..Len(inflight)
    /\ inflight[i].op = "CreateAd"
    /\ inflight[i].pc = "FindUserByID"
    /\ LET r == inflight[i]
           f == UserStoreFindUserByID(r.ad.UserID, "none")
       IN  inflight' = [inflight EXCEPT ![i] =
               IF f.err # Nil
               THEN CreateAdRequest(r.given, "done", r.ad, 0, CreateAdLookupError(f.err))
               ELSE CreateAdRequest(r.given, "CreateAd", [r.ad EXCEPT !.AuthorLogin = f.u.Login], 0, Nil)]
    /\ UNCHANGED <<users, nextUserID, ads, nextAdID, now, registered, held, last>>

\* CreateAd, lines 56-67: the call of the ad store's CreateAd and the rest of
\* the method.
CreateAdInsertStep(i) ==
    /\ i \in 1..Len(inflight)
    /\ inflight[i].op = "CreateAd"
    /\ inflight[i].pc = "CreateAd"
    /\ LET r == inflight[i]
           c == AdStoreCreateAd(r.ad, "none")
       IN  /\ Len(c.rows) <= MaxAds
           /\ ads' = c.rows
           /\ nextAdID' = c.nextID
           /\ inflight' = [inflight EXCEPT ![i] =
                  IF c.err # Nil
                  THEN CreateAdRequest(r.given, "done", c.ad, 0, CreateAdStoreError(c.err))
                  ELSE CreateAdRequest(r.given, "done", c.ad, c.id, Nil)]
    /\ UNCHANGED <<users, nextUserID, now, registered, held, last>>

\* The requests that arrive.
ConcurrentRegisters ==
    {<<LoginAbx, PasswordOne>>, <<LoginAbx, PasswordTwo>>, <<LoginZ77, PasswordOne>>}

ConcurrentAds ==
    {[NewAd(<<"T">>, <<"x">>, userID, 5) EXCEPT !.AuthorLogin = LoginZ77] : userID \in 1..MaxUsers}
    \cup {NewAd(<<"T">>, <<"x">>, 1, -5),
          NewAd(Pad(<<>>, "a", TitleMaxLen + 1), <<"x">>, 1, 5)}

RegisterBegins ==
    \E request \in ConcurrentRegisters : RegisterBeginStep(request[1], request[2])

RegisterCreatesUser ==
    \E i \in 1..MaxRequests : RegisterCreateUserStep(i)

CreateAdBegins ==
    \E ad \in ConcurrentAds : CreateAdBeginStep(ad)

CreateAdFindsUser ==
    \E i \in 1..MaxRequests : CreateAdFindUserStep(i)

CreateAdInserts ==
    \E i \in 1..MaxRequests : CreateAdInsertStep(i)

NextConcurrent ==
    \/ RegisterBegins
    \/ RegisterCreatesUser
    \/ CreateAdBegins
    \/ CreateAdFindsUser
    \/ CreateAdInserts

SpecConcurrent == Init /\ [][NextConcurrent]_vars


\* The Register requests in flight that were given a login and a password
\* of valid format.
ValidRegisters ==
    {i \in 1..Len(inflight) :
        /\ inflight[i].op = "Register"
        /\ RegisterValidate(inflight[i].login, inflight[i].password) = Nil}

Succeeded(i) == inflight[i].pc = "done" /\ inflight[i].err = Nil

\* C26: under any interleaving of concurrent Register requests with the same
\* valid login and valid passwords at most one succeeds and each other one
\* that has ended returned the 'user exists' error; the user store holds at
\* most one user per login at every moment; the successful requests
\* returned distinct IDs, each the ID of the stored user of its login.
C26_ConcurrentRegisterUniqueLogin ==
    /\ \A i, j \in ValidRegisters :
           (i # j /\ Succeeded(i) /\ Succeeded(j))
              => /\ inflight[i].login # inflight[j].login
                 /\ inflight[i].user.ID # inflight[j].user.ID
    /\ \A i \in ValidRegisters :
           inflight[i].pc = "done"
              => /\ inflight[i].err \in {Nil, SvcErrUserExists}
                 /\ inflight[i].err = SvcErrUserExists
                       => /\ inflight[i].token = EmptyToken
                          /\ inflight[i].user = NilUser
                          /\ \E j \in ValidRegisters \ {i} :
                                 Succeeded(j) /\ inflight[j].login = inflight[i].login
                 /\ inflight[i].err = Nil
                       => \E u \in 1..Len(users) :
                              /\ users[u].Login = inflight[i].login
                              /\ users[u].ID = inflight[i].user.ID
                              /\ users[u].PasswordHash.of = inflight[i].password
    /\ \A u, v \in 1..Len(users) :
           u # v => (users[u].Login # users[v].Login /\ users[u].ID # users[v].ID)

\* Three requests registered the same login, with two different passwords:
\* all have ended, one succeeded and two returned 'user exists'.
C26_Witness ==
    /\ Len(inflight) = 3
    /\ ValidRegisters = {1, 2, 3}
    /\ \A i \in 1..3 : inflight[i].pc = "done" /\ inflight[i].login = inflight[1].login
    /\ \E i, j \in 1..3 : inflight[i].password # inflight[j].password
    /\ Cardinality({i \in 1..3 : Succeeded(i)}) = 1
    /\ Cardinality({i \in 1..3 : inflight[i].err = SvcErrUserExists}) = 2
    /\ ~Succeeded(1)

\* Two requests for the same login are both about to call CreateUser while
\* the login is not stored.
C26_WitnessRace ==
    /\ \E i, j \in ValidRegisters :
           /\ i # j
           /\ inflight[i].login = inflight[j].login
           /\ inflight[i].pc = "CreateUser"
           /\ inflight[j].pc = "CreateUser"
           /\ RowsWithLogin(inflight[i].login) = {}

\* The stored users an ad's user ID refers to.
AuthorsOf(ad) == {u \in 1..Len(users) : users[u].ID = ad.UserID}

\* C29: after any sequence and interleaving of Register and CreateAd
\* requests every stored ad has a non-empty title of at most 120 bytes (so
\* at most 120 characters), a non-empty text, a price of at least 0, a user
\* ID that refers to a stored user, and that user's login as author login.
C29_StoredAdsSatisfyDataModel ==
    \A j \in 1..Len(ads) :
        /\ ads[j].Title # <<>>
        /\ ByteLen(ads[j].Title) <= TitleMaxLen
        /\ Len(ads[j].Title) <= TitleMaxLen
        /\ ads[j].Text # <<>>
        /\ ads[j].Price >= 0
        /\ AuthorsOf(ads[j]) # {}
        /\ \A u \in AuthorsOf(ads[j]) : ads[j].AuthorLogin = users[u].Login

\* A CreateAd request that arrived before the Register request of its
\* author stored an ad under that author's login although the caller had
\* supplied another author login.
C29_Witness ==
    /\ Len(ads) >= 1
    /\ \E i, k \in 1..Len(inflight) :
           /\ i < k
           /\ inflight[i].op = "CreateAd" /\ Succeeded(i)
           /\ inflight[k].op = "Register" /\ Succeeded(k)
           /\ inflight[k].user.ID = inflight[i].ad.UserID
           /\ inflight[i].given.AuthorLogin # <<>>
           /\ inflight[i].given.AuthorLogin # inflight[k].login
           /\ \E j \in 1..Len(ads) :
                  /\ ads[j].ID = inflight[i].id
                  /\ ads[j].AuthorLogin = inflight[k].login

\* A request with a negative price or a title of 121 bytes has ended with
\* the invalid-input error while an ad is stored.
C29_WitnessRejected ==
    /\ Len(ads) >= 1
    /\ \E i \in 1..Len(inflight) :
           /\ inflight[i].op = "CreateAd" /\ inflight[i].pc = "done"
           /\ ErrorsIs(inflight[i].err, SvcErrInvalidInput)
           /\ \/ inflight[i].given.Price < 0
              \/ ByteLen(inflight[i].given.Title) > TitleMaxLen


----------------------------------------------------------------------------
(* Further properties of the transport layer (SpecHTTP).                    *)

\* The calls of the ad store's ListAds in the observed request.
ListAdsCalls == {i \in 1..Len(last.calls) : last.calls[i].fn = "ListAds"}

\* C27 (as stated): for every listing query that passes validation,
\* whatever page was accepted, the offset handed to the store is not
\* negative and is the exact product (page - 1) * limit: the multiplication
\* of machine integers does not wrap.
C27_OffsetNeverWraps ==
    last.op = "GET /v1/ads"
        => \A i \in ListAdsCalls :
               /\ GetOffset(last.calls[i].arg) >= 0
               /\ GetOffset(last.calls[i].arg) = (last.calls[i].arg.Page - 1) * last.calls[i].arg.Limit

\* GET /ads with the largest page the parser accepts and limit 100: the
\* query passed validation, the offset wrapped below zero, the store
\* refused it and the response is 500.
C27_Witness ==
    /\ last.op = "GET /v1/ads"
    /\ last.query = [BaseRawQuery EXCEPT !.page = FormatInt(MaxInt), !.limit = FormatInt(MaxLimit)]
    /\ ListAdsCalls # {}
    /\ \A i \in ListAdsCalls :
           /\ validateListParams(last.calls[i].arg) = Nil
           /\ (last.calls[i].arg.Page - 1) * last.calls[i].arg.Limit > MaxInt
           /\ GetOffset(last.calls[i].arg) < 0
           /\ ErrorsIs(last.calls[i].err, Sentinel("pgconn.PgError", ""))
    /\ last.resp = respondWithError(StatusInternalServerError, <<"internal server error">>)

\* Page 3 with limit 10 gave the offset 20.
C27_WitnessInRange ==
    /\ last.op = "GET /v1/ads"
    /\ last.query = [BaseRawQuery EXCEPT !.page = FormatInt(3), !.limit = FormatInt(10)]
    /\ \E i \in ListAdsCalls : GetOffset(last.calls[i].arg) = 20 /\ last.calls[i].err = Nil
    /\ last.resp.status = StatusOK


\* C28: the owner of every ad created through POST /ads is the
\* authenticated caller.  The user ID handed to the ads service's CreateAd is
\* the ID of the user ParseToken resolves from the request's token, whatever
\* the body holds, and an ad that is created is stored under that ID and
\* that user's login.
C28_OwnerIsAuthenticatedCaller ==
    (last.op = "POST /v1/ads" /\ last.service # <<>>)
        => LET resolved == ParseTokenResult(last.header[2].token, last.tokenFault)
           IN  /\ resolved.err = Nil
               /\ \A i \in 1..Len(last.service) :
                      /\ last.service[i].arg.UserID = resolved.user.ID
                      /\ last.service[i].arg.UserID = SscanfInt(last.header[2].token.sub).value
               /\ last.resp.status = StatusCreated
                     => \E j \in 1..Len(ads) :
                            /\ ads[j].ID = last.resp.id
                            /\ ads[j].UserID = resolved.user.ID
                            /\ ads[j].AuthorLogin = resolved.user.Login

\* A request with the token of one user and a body naming another
\* registered user as user_id created an ad of the token's user.
C28_Witness ==
    /\ last.op = "POST /v1/ads"
    /\ last.resp.status = StatusCreated
    /\ \E m \in last.body.other :
           /\ m[1] = "user_id"
           /\ m[2] # last.ctx.userID
           /\ RowsWithID(m[2]) # {}
    /\ \E j \in 1..Len(ads) :
           /\ ads[j].ID = last.resp.id
           /\ ads[j].UserID = last.ctx.userID
           /\ ads[j].UserID = SscanfInt(last.header[2].token.sub).value

----------------------------------------------------------------------------
(* Listing requests one after another.  Each request is served from start   *)
(* to end and kept in inflight with the query object it was served with:    *)
(* as it was handed to the ads service and as the service left it.          *)

\* The most listing requests in one run.
MaxListings == 2

\* query: the query string (GET /ads only); given: the query object handed
\* to the service, nil when the handler built none; after: that object
\* when the request has ended.
ListingRequest(op, query, given, after, calls, err, status) ==
    [op |-> op, query |-> query, given |-> given, after |-> after, calls |-> calls,
     err |-> err, status |-> status]

\* GET /ads: AdsHandler.ListAds builds the query object from the request
\* and hands it to Service.ListAds.
ServeGetAds(query, fault) ==
    /\ Len(inflight) < MaxListings
    /\ LET p == parseListAdsParams(query)
           h == AdsHandlerListAds(NoUser, query, fault)
       IN  inflight' = Append(inflight,
               IF p.err # Nil
               THEN ListingRequest("GET /v1/ads", query, NilParams, NilParams, h.calls, p.err,
                                   h.resp.status)
               ELSE LET r == ListAdsResult(p.params, fault)
                    IN  ListingRequest("GET /v1/ads", query, p.params, r.params, h.calls, r.err,
                                       h.resp.status))
    /\ UNCHANGED <<users, nextUserID, ads, nextAdID, now, registered, held, last>>

\* Service.ListAds called with a query object of the caller.
CallListAds(params, fault) ==
    /\ Len(inflight) < MaxListings
    /\ LET r == ListAdsResult(params, fault)
       IN  inflight' = Append(inflight,
               ListingRequest("ListAds", BaseRawQuery, params, r.params, r.calls, r.err, 0))
    /\ UNCHANGED <<users, nextUserID, ads, nextAdID, now, registered, held, last>>

\* The requests that arrive: queries that leave every, some or no field to
\* the defaults, one query for each validation rule, and one that does not
\* parse; a store failure for the query that is all defaults.
ListingQueries ==
    {BaseRawQuery,
     RawQuery("price", "asc", FormatInt(2), FormatInt(1), <<>>, <<>>),
     [BaseRawQuery EXCEPT !.page = FormatInt(2)],
     [BaseRawQuery EXCEPT !.min_price = FormatInt(5), !.max_price = FormatInt(5)],
     [BaseRawQuery EXCEPT !.sort_by = "name"],
     [BaseRawQuery EXCEPT !.order = "down"],
     [BaseRawQuery EXCEPT !.page = FormatInt(-1)],
     [BaseRawQuery EXCEPT !.limit = FormatInt(-1)],
     [BaseRawQuery EXCEPT !.limit = FormatInt(MaxLimit + 1)],
     [BaseRawQuery EXCEPT !.min_price = FormatInt(-1)],
     [BaseRawQuery EXCEPT !.max_price = FormatInt(-1)],
     [BaseRawQuery EXCEPT !.min_price = FormatInt(5), !.max_price = FormatInt(0)],
     [BaseRawQuery EXCEPT !.sort_by = "name", !.page = FormatInt(2)],
     [BaseRawQuery EXCEPT !.page = <<"x">>]}

ListingParams ==
    {BaseQuery, [BaseQuery EXCEPT !.SortBy = "name"], [BaseQuery EXCEPT !.Page = -1],
     [BaseQuery EXCEPT !.Limit = MaxLimit + 1, !.MinPrice = PriceOf(5)]}

ListingGetAds ==
    \E query \in ListingQueries, fault \in {"none", "conn"} :
        /\ fault = "conn" => query = BaseRawQuery
        /\ ServeGetAds(query, fault)

ListingListAds ==
    \E params \in ListingParams : CallListAds(params, "none")

NextListing ==
    \/ ListingGetAds
    \/ ListingListAds

SpecListing == Init /\ [][NextListing]_vars

\* The value the handler gives a numeric field of the query object: zero
\* when the query string does not hold the parameter.
FieldOf(text) == IF text = <<>> THEN 0 ELSE ParseInt(text).value
PriceFieldOf(text) == IF text = <<>> THEN NilPrice ELSE PriceOf(ParseInt(text).value)

\* C30: when ListAds rejects a query the query object is left as the caller
\* supplied it and the ad store is not called; the object changes only when
\* no validation rule is violated, and then into the caller's values with
\* the defaults filled in, which is what the store is called with; and the
\* object the handler hands to the service holds the values of the
\* request's own query string and zero values otherwise, whatever the
\* requests before it left in theirs.
C30_RejectedQueryUntouched ==
    \A i \in 1..Len(inflight) :
        inflight[i].op \in {"GET /v1/ads", "ListAds"}
           => LET r == inflight[i]
              IN  /\ r.given = NilParams
                        => r.op = "GET /v1/ads" /\ r.calls = <<>> /\ r.status = StatusBadRequest
                  /\ r.given # NilParams
                        => /\ ViolatedListRules(r.given) # {}
                                 => /\ ErrorsIs(r.err, SvcErrInvalidInput)
                                    /\ r.after = r.given
                                    /\ r.calls = <<>>
                           /\ ErrorsIs(r.err, SvcErrInvalidInput) => ViolatedListRules(r.given) # {}
                           /\ r.after # r.given => ViolatedListRules(r.given) = {}
                           /\ ViolatedListRules(r.given) = {}
                                 => /\ r.after.SortBy = (IF r.given.SortBy = "" THEN "created_at" ELSE r.given.SortBy)
                                    /\ r.after.Order = (IF r.given.Order = "" THEN "desc" ELSE r.given.Order)
                                    /\ r.after.Page = (IF r.given.Page = 0 THEN DefaultPage ELSE r.given.Page)
                                    /\ r.after.Limit = (IF r.given.Limit = 0 THEN DefaultLimit ELSE r.given.Limit)
                                    /\ r.after.MinPrice = r.given.MinPrice
                                    /\ r.after.MaxPrice = r.given.MaxPrice
                                    /\ Len(r.calls) = 1
                                    /\ r.calls[1].fn = "ListAds"
                                    /\ r.calls[1].arg = r.after
                           /\ r.op = "GET /v1/ads"
                                 => /\ r.given.SortBy = r.query.sort_by
                                    /\ r.given.Order = r.query.order
                                    /\ r.given.Page = FieldOf(r.query.page)
                                    /\ r.given.Limit = FieldOf(r.query.limit)
                                    /\ r.given.MinPrice = PriceFieldOf(r.query.min_price)
                                    /\ r.given.MaxPrice = PriceFieldOf(r.query.max_price)

\* A request whose query was all defaults had them written into its
\* object and reached the store; the next request, with an unknown sort key
\* and a page, was rejected with status 400 without a store call, and its
\* object holds the page of its query and zero for the limit.
C30_Witness ==
    /\ Len(inflight) = 2
    /\ \A i \in 1..2 : inflight[i].op = "GET /v1/ads"
    /\ inflight[1].query = BaseRawQuery
    /\ inflight[1].given = Query("", "", 0, 0, NilPrice, NilPrice)
    /\ inflight[1].after = Query("created_at", "desc", DefaultPage, DefaultLimit, NilPrice, NilPrice)
    /\ inflight[1].calls # <<>>
    /\ inflight[2].query = [BaseRawQuery EXCEPT !.sort_by = "name", !.page = FormatInt(2)]
    /\ inflight[2].status = StatusBadRequest
    /\ inflight[2].calls = <<>>
    /\ inflight[2].given = Query("name", "", 2, 0, NilPrice, NilPrice)
    /\ inflight[2].after = inflight[2].given

\* Service.ListAds called with the caller's own object: a rejected one is
\* unchanged, an accepted one holds the defaults.
C30_WitnessDirectCall ==
    \E i, j \in 1..Len(inflight) :
        /\ inflight[i].op = "ListAds" /\ inflight[j].op = "ListAds"
        /\ inflight[i].err # Nil /\ inflight[i].after = inflight[i].given
        /\ inflight[i].given.Limit = MaxLimit + 1
        /\ inflight[j].err = Nil /\ inflight[j].after # inflight[j].given

====
